---- MODULE Spec2Model ----
(***************************************************************************)
(* A model of pydantic's field validation engine (pydantic/fields.py) and  *)
(* of its constrained types (pydantic/types.py).                           *)
(*                                                                         *)
(* Python objects are records with one layout (kind, i, s, items, id):     *)
(*   kind   the concrete class ("none", "int", "str", "list", "tuple",     *)
(*          "set", "frozenset", "generator", "list_iterator", "dict",      *)
(*          "pair")                                                        *)
(*   i      the number of an int                                           *)
(*   s      the characters of a str                                        *)
(*   items  the elements of a container in iteration order (what is left   *)
(*          to yield, for a generator; the key/value pairs of a dict)      *)
(*   id     the identity of a container object                             *)
(* The state: config is what the Field was constructed from (type_,        *)
(* class_validators, required), field the Field, input the object handed   *)
(* to validate, ret what the call gave, again what validating ret's value  *)
(* gave, runtime what the interpreter is free to do.                       *)
(* A validate call is one action; its result carries the value, the        *)
(* errors, an exception that left the call, the input object as the call   *)
(* left it, and the sequence of calls made (trace).                        *)
(***************************************************************************)
EXTENDS Integers, Sequences, FiniteSets, TLC

VARIABLES config, field, input, ret, again, phase, runtime

vars == <<config, field, input, ret, again, phase, runtime>>

(***************************************************************************)
(* Bounds of the model.                                                    *)
(***************************************************************************)
MaxLen == 3
MaxStrLen == 3
MaxInt == 2
MaxBound == 2
MaxEntries == 2
MaxArity == 3

(***************************************************************************)
(* fields.py:51-58                                                         *)
(***************************************************************************)
SHAPE_SINGLETON == 1
SHAPE_LIST == 2
SHAPE_SET == 3
SHAPE_MAPPING == 4
SHAPE_TUPLE == 5
SHAPE_TUPLE_ELLIPSIS == 6
SHAPE_SEQUENCE == 7
SHAPE_FROZENSET == 8

(***************************************************************************)
(* Python values.                                                          *)
(***************************************************************************)
NoneV == [kind |-> "none", i |-> 0, s |-> <<>>, items |-> <<>>, id |-> ""]

IntV(n) == [kind |-> "int", i |-> n, s |-> <<>>, items |-> <<>>, id |-> ""]

StrV(cs) == [kind |-> "str", i |-> 0, s |-> cs, items |-> <<>>, id |-> ""]

Obj(kind, items, id) == [kind |-> kind, i |-> 0, s |-> <<>>, items |-> items, id |-> id]

PairV(k, v) == Obj("pair", <<k, v>>, "")

SeqsUpTo(S, n) == UNION {[1..k -> S] : k \in 0..n}

Range(f) == {f[x] : x \in DOMAIN f}

NoDup(q) == \A a, b \in DOMAIN q : a # b => q[a] # q[b]

RECURSIVE Dedupe(_)
\* the distinct elements of q, each at its first place
Dedupe(q) ==
  IF q = <<>> THEN <<>>
  ELSE LET r == Dedupe(SubSeq(q, 1, Len(q) - 1))
           x == q[Len(q)]
       IN IF x \in Range(r) THEN r ELSE Append(r, x)

\* len(v); -1 stands for the TypeError of an object without a length
PyLen(v) ==
  CASE v.kind \in {"list", "tuple", "set", "frozenset", "dict"} -> Len(v.items)
    [] v.kind = "str" -> Len(v.s)
    [] OTHER -> -1

\* a faulty variant of NewList: the elements are put back into the caller's list
NewListInPlace(items) == Obj("list", items, "input")

\* list(), [] : always a new object
NewList(items) == Obj("list", items, "fresh")

\* set(result)
NewSet(items) == Obj("set", Dedupe(items), "fresh")

\* frozenset(result): the runtime may hand out one shared empty frozenset
NewFrozenset(items) ==
  Obj("frozenset", Dedupe(items),
      IF items = <<>> /\ runtime.shareEmptyFrozenset THEN "empty_frozenset" ELSE "fresh")

\* tuple(result): the empty tuple is one shared object
NewTuple(items) == Obj("tuple", items, IF items = <<>> THEN "empty_tuple" ELSE "fresh")

\* iter(result)
NewIter(items) == Obj("list_iterator", items, "fresh")

\* a faulty variant of DictSet: the pair is added whether or not the key is there
DictSetAppend(pairs, k, v) == Append(pairs, PairV(k, v))

RECURSIVE DictSet(_, _, _)
\* d[k] = v on the pairs of a dict: an existing key keeps its place
DictSet(pairs, k, v) ==
  IF pairs = <<>> THEN <<PairV(k, v)>>
  ELSE IF pairs[1].items[1] = k THEN <<PairV(k, v)>> \o Tail(pairs)
  ELSE <<pairs[1]>> \o DictSet(Tail(pairs), k, v)

NewDict(pairs) == Obj("dict", pairs, "fresh")

\* the object an iteration over v leaves behind: a generator is exhausted
Consumed(v) == IF v.kind \in {"generator", "list_iterator"} THEN [v EXCEPT !.items = <<>>] ELSE v

(***************************************************************************)
(* Errors: None, one ErrorWrapper(exc, loc), or a list of errors.  exc is  *)
(* the exception's class, base the builtin class it derives from, args     *)
(* the numbers it carries.  A location is a tuple of python values.        *)
(***************************************************************************)
NoErr == [t |-> "none", exc |-> "", base |-> "", args |-> <<>>, loc |-> <<>>, items |-> <<>>]

ErrorWrapper(exc, base, args, loc) ==
  [t |-> "wrapper", exc |-> exc, base |-> base, args |-> args, loc |-> loc, items |-> <<>>]

ErrorListOf(items) ==
  [t |-> "list", exc |-> "", base |-> "", args |-> <<>>, loc |-> <<>>, items |-> items]

\* `if errors:`
Truthy(e) == e.t = "wrapper" \/ (e.t = "list" /\ e.items # <<>>)

RECURSIVE Flatten(_)
\* the wrappers of an error structure, in order
Flatten(e) ==
  CASE e.t = "none" -> <<>>
    [] e.t = "wrapper" -> <<e>>
    [] OTHER -> IF e.items = <<>> THEN <<>>
                ELSE Flatten(e.items[1]) \o Flatten(ErrorListOf(Tail(e.items)))

(***************************************************************************)
(* Strings and numbers.                                                    *)
(***************************************************************************)
Digits == <<"0", "1", "2", "3", "4", "5", "6", "7", "8", "9">>

IsDigit(c) == c \in Range(Digits)

DigitOf(c) == (CHOOSE d \in 1..10 : Digits[d] = c) - 1

RECURSIVE LStrip(_)
LStrip(s) == IF s # <<>> /\ s[1] = " " THEN LStrip(Tail(s)) ELSE s

RECURSIVE RStrip(_)
RStrip(s) == IF s # <<>> /\ s[Len(s)] = " " THEN RStrip(SubSeq(s, 1, Len(s) - 1)) ELSE s

\* str.strip()
Strip(s) == RStrip(LStrip(s))

RECURSIVE DigitsToInt(_)
DigitsToInt(s) ==
  IF s = <<>> THEN 0 ELSE 10 * DigitsToInt(SubSeq(s, 1, Len(s) - 1)) + DigitOf(s[Len(s)])

\* int(str) succeeds on digits between optional blanks
IntParses(s) == Strip(s) # <<>> /\ \A k \in DOMAIN Strip(s) : IsDigit(Strip(s)[k])

RECURSIVE NatToStr(_)
NatToStr(n) == IF n < 10 THEN <<Digits[n + 1]>> ELSE NatToStr(n \div 10) \o <<Digits[(n % 10) + 1]>>

\* str(int)
IntToStr(n) == IF n < 0 THEN <<"-">> \o NatToStr(0 - n) ELSE NatToStr(n)

\* re.compile(p).match(s) for a pattern of literal characters: s starts with p
RegexMatch(p, s) == Len(p) <= Len(s) /\ SubSeq(s, 1, Len(p)) = p

(***************************************************************************)
(* The configuration a constrained type carries as class attributes.       *)
(* None is NoneInt for a number, <<>> for a regex.                         *)
(***************************************************************************)
NoneInt == -1

NoCfg ==
  [strict |-> FALSE, gt |-> NoneInt, ge |-> NoneInt, lt |-> NoneInt, le |-> NoneInt,
   multiple_of |-> NoneInt, strip_whitespace |-> FALSE, min_length |-> NoneInt,
   max_length |-> NoneInt, curtail_length |-> NoneInt, regex |-> <<>>,
   min_items |-> NoneInt, max_items |-> NoneInt,
   max_digits |-> NoneInt, decimal_places |-> NoneInt]

(***************************************************************************)
(* A validator is a function and the class it is bound to (cfg).  Its      *)
(* outcome is a value, or an exception.                                    *)
(***************************************************************************)
Fn(name) == [fn |-> name, cfg |-> NoCfg]

BoundFn(name, cfg) == [fn |-> name, cfg |-> cfg]

Returns(v) == [exc |-> "", base |-> "", args |-> <<>>, v |-> v]

Raises(exc, base, args) == [exc |-> exc, base |-> base, args |-> args, v |-> NoneV]

\* validators.int_validator: an int as it is, a str through int()
int_validator(v) ==
  CASE v.kind = "int" -> Returns(v)
    [] v.kind = "str" /\ IntParses(v.s) -> Returns(IntV(DigitsToInt(Strip(v.s))))
    [] OTHER -> Raises("IntegerError", "TypeError", <<>>)

\* validators.strict_int_validator
strict_int_validator(v) ==
  IF v.kind = "int" THEN Returns(v) ELSE Raises("IntegerError", "TypeError", <<>>)

\* validators.str_validator: a str as it is, a number through str()
str_validator(v) ==
  CASE v.kind = "str" -> Returns(v)
    [] v.kind = "int" -> Returns(StrV(IntToStr(v.i)))
    [] OTHER -> Raises("StrError", "TypeError", <<>>)

\* validators.strict_str_validator
strict_str_validator(v) ==
  IF v.kind = "str" THEN Returns(v) ELSE Raises("StrError", "TypeError", <<>>)

\* validators.constr_strip_whitespace: the optional whitespace trim
constr_strip_whitespace(v, cfg) ==
  IF cfg.strip_whitespace /\ v.kind = "str" THEN Returns(StrV(Strip(v.s))) ELSE Returns(v)

\* validators.constr_length_validator: the length bounds
constr_length_validator(v, cfg) ==
  CASE PyLen(v) < 0 -> Raises("TypeError", "TypeError", <<>>)
    [] PyLen(v) >= 0 /\ cfg.min_length # NoneInt /\ PyLen(v) < cfg.min_length ->
         Raises("AnyStrMinLengthError", "ValueError", <<cfg.min_length>>)
    [] PyLen(v) >= 0 /\ ~(cfg.min_length # NoneInt /\ PyLen(v) < cfg.min_length)
         /\ cfg.max_length # NoneInt /\ PyLen(v) > cfg.max_length ->
         Raises("AnyStrMaxLengthError", "ValueError", <<cfg.max_length>>)
    [] OTHER -> Returns(v)

\* validators.number_size_validator: the bounds gt, ge, lt, le
number_size_validator(v, cfg) ==
  CASE cfg.gt # NoneInt /\ ~(v.i > cfg.gt) -> Raises("NumberNotGtError", "ValueError", <<cfg.gt>>)
    [] ~(cfg.gt # NoneInt /\ ~(v.i > cfg.gt))
         /\ cfg.ge # NoneInt /\ ~(v.i >= cfg.ge) -> Raises("NumberNotGeError", "ValueError", <<cfg.ge>>)
    [] OTHER ->
         IF cfg.lt # NoneInt /\ ~(v.i < cfg.lt) THEN Raises("NumberNotLtError", "ValueError", <<cfg.lt>>)
         ELSE IF cfg.le # NoneInt /\ ~(v.i <= cfg.le) THEN Raises("NumberNotLeError", "ValueError", <<cfg.le>>)
         ELSE Returns(v)

\* validators.number_multiple_validator: value % multiple_of == 0
number_multiple_validator(v, cfg) ==
  IF cfg.multiple_of # NoneInt /\ cfg.multiple_of > 0 /\ v.i % cfg.multiple_of # 0
  THEN Raises("NumberNotMultipleError", "ValueError", <<cfg.multiple_of>>)
  ELSE Returns(v)

\* ConstrainedStr.validate
ConstrainedStr_validate(value, cls) ==
  LET value1 == IF cls.curtail_length # NoneInt /\ cls.curtail_length # 0
                   /\ Len(value.s) > cls.curtail_length
                THEN StrV(SubSeq(value.s, 1, cls.curtail_length))
                ELSE value
  IN IF cls.regex # <<>> /\ ~RegexMatch(cls.regex, value1.s)
     THEN Raises("StrRegexError", "ValueError", <<>>)
     ELSE Returns(value1)

\* ConstrainedList.list_length_validator
list_length_validator(v, cls) ==
  LET v_len == PyLen(v)
  IN CASE v_len < 0 -> Raises("TypeError", "TypeError", <<>>)
       [] v_len >= 0 /\ cls.min_items # NoneInt /\ v_len < cls.min_items ->
            Raises("ListMinLengthError", "ValueError", <<cls.min_items>>)
       [] v_len >= 0 /\ ~(cls.min_items # NoneInt /\ v_len < cls.min_items)
            /\ cls.max_items # NoneInt /\ v_len > cls.max_items ->
            Raises("ListMaxLengthError", "ValueError", <<cls.max_items>>)
       [] OTHER -> Returns(v)

\* validators.validate_json: the text parsed as structured data
validate_json(v) ==
  CASE v.kind = "str" /\ IntParses(v.s) -> Returns(IntV(DigitsToInt(Strip(v.s))))
    [] v.kind = "str" /\ ~IntParses(v.s) -> Raises("JsonError", "ValueError", <<>>)
    [] OTHER -> Raises("JsonTypeError", "TypeError", <<>>)

\* the validator make_literal_validator builds: the value is one of the literals
literal_validator(v, permitted) ==
  IF v \in Range(permitted) THEN Returns(v) ELSE Raises("WrongConstantError", "ValueError", <<>>)

(***************************************************************************)
(* Decimal: as_tuple() gives the digits (items) and the exponent (i); the  *)
(* exponent of a value that is not finite is 'F', 'n' or 'N' (id).         *)
(***************************************************************************)
DecimalV(digit_tuple, exponent) ==
  [kind |-> "Decimal", i |-> exponent, s |-> <<>>, items |-> digit_tuple, id |-> ""]

NotFiniteV(digit_tuple, exponent) ==
  [kind |-> "Decimal", i |-> 0, s |-> <<>>, items |-> digit_tuple, id |-> exponent]

\* validators.decimal_validator: a Decimal as it is, an int as a Decimal of
\* exponent 0
decimal_validator(v) ==
  CASE v.kind = "Decimal" -> Returns(v)
    [] v.kind = "int" /\ v.i >= 0 ->
         Returns(DecimalV([k \in DOMAIN NatToStr(v.i) |-> DigitOf(NatToStr(v.i)[k])], 0))
    [] OTHER -> Raises("DecimalError", "TypeError", <<>>)

\* a faulty variant of ConstrainedDecimal.validate: the whole digits are checked
\* before the digits and the decimal places
ConstrainedDecimal_validateWholeFirst(value, cls) ==
  LET digit_tuple == value.items
      exponent == value.i
      digits == IF exponent >= 0 THEN Len(digit_tuple) + exponent
                ELSE IF -exponent > Len(digit_tuple) THEN -exponent
                ELSE Len(digit_tuple)
      decimals == IF exponent >= 0 THEN 0 ELSE -exponent
      whole_digits == digits - decimals
      expected == cls.max_digits - cls.decimal_places
  IN IF value.id \in {"F", "n", "N"} THEN Raises("DecimalIsNotFiniteError", "ValueError", <<>>)
     ELSE IF cls.max_digits # NoneInt /\ cls.decimal_places # NoneInt /\ whole_digits > expected
     THEN Raises("DecimalWholeDigitsError", "ValueError", <<expected>>)
     ELSE IF cls.max_digits # NoneInt /\ digits > cls.max_digits
     THEN Raises("DecimalMaxDigitsError", "ValueError", <<cls.max_digits>>)
     ELSE IF cls.decimal_places # NoneInt /\ decimals > cls.decimal_places
     THEN Raises("DecimalMaxPlacesError", "ValueError", <<cls.decimal_places>>)
     ELSE Returns(value)

\* ConstrainedDecimal.validate
ConstrainedDecimal_validate(value, cls) ==
  LET digit_tuple == value.items
      exponent == value.i
      digits == IF exponent >= 0 THEN Len(digit_tuple) + exponent
                ELSE IF -exponent > Len(digit_tuple) THEN -exponent
                ELSE Len(digit_tuple)
      decimals == IF exponent >= 0 THEN 0 ELSE -exponent
      whole_digits == digits - decimals
      expected == cls.max_digits - cls.decimal_places
  IN IF value.id \in {"F", "n", "N"} THEN Raises("DecimalIsNotFiniteError", "ValueError", <<>>)
     ELSE IF cls.max_digits # NoneInt /\ digits > cls.max_digits
     THEN Raises("DecimalMaxDigitsError", "ValueError", <<cls.max_digits>>)
     ELSE IF cls.decimal_places # NoneInt /\ decimals > cls.decimal_places
     THEN Raises("DecimalMaxPlacesError", "ValueError", <<cls.decimal_places>>)
     ELSE IF cls.max_digits # NoneInt /\ cls.decimal_places # NoneInt /\ whole_digits > expected
     THEN Raises("DecimalWholeDigitsError", "ValueError", <<expected>>)
     ELSE Returns(value)

(***************************************************************************)
(* PaymentCardNumber: a str that carries bin, last4 and brand (items).     *)
(***************************************************************************)
\* PaymentCardNumber._get_brand
get_brand(card_number) ==
  IF card_number[1] = "4" THEN "visa"
  ELSE IF 51 <= DigitsToInt(SubSeq(card_number, 1, 2)) /\ DigitsToInt(SubSeq(card_number, 1, 2)) <= 55
  THEN "mastercard"
  ELSE IF SubSeq(card_number, 1, 2) \in {<<"3", "4">>, <<"3", "7">>} THEN "amex"
  ELSE "other"

\* PaymentCardNumber(card_number): str.__new__ and __init__
PaymentCardNumber(card_number) ==
  [kind |-> "str", i |-> 0, s |-> card_number.s,
   items |-> <<StrV(SubSeq(card_number.s, 1, 6)),
               StrV(SubSeq(card_number.s, Len(card_number.s) - 3, Len(card_number.s))),
               StrV(<<get_brand(card_number.s)>>)>>,
   id |-> "PaymentCardNumber"]

\* card_number.brand
brand(card_number) == card_number.items[3].s[1]

\* PaymentCardNumber.validate_digits: str.isdigit is false on the empty str
validate_digits(card_number) ==
  IF card_number.s # <<>> /\ \A k \in DOMAIN card_number.s : IsDigit(card_number.s[k])
  THEN Returns(card_number)
  ELSE Raises("NotDigitError", "ValueError", <<>>)

RECURSIVE LuhnLoop(_, _, _)
\* validate_luhn_check_digit, `for i in range(length - 1)` from i on
LuhnLoop(card_number, i, sum_) ==
  IF i >= Len(card_number) - 1 THEN sum_
  ELSE LET digit == DigitOf(card_number[i + 1])
           parity == Len(card_number) % 2
       IN LuhnLoop(card_number, i + 1,
                   sum_ + (IF i % 2 = parity THEN digit * 2 ELSE digit))

\* PaymentCardNumber.validate_luhn_check_digit
validate_luhn_check_digit(card_number) ==
  IF LuhnLoop(card_number.s, 0, DigitOf(card_number.s[Len(card_number.s)])) % 10 = 0
  THEN Returns(card_number)
  ELSE Raises("LuhnValidationError", "ValueError", <<>>)

\* PaymentCardNumber.validate_length_for_brand:
\* (PaymentCardBrand.visa or PaymentCardBrand.mastercard) is PaymentCardBrand.visa
validate_length_for_brand(card_number) ==
  LET visa_or_mastercard == "visa"
      required_length == IF brand(card_number) = visa_or_mastercard THEN 16
                         ELSE IF brand(card_number) = "amex" THEN 15
                         ELSE NoneInt
  IN IF required_length = NoneInt \/ Len(card_number.s) = required_length
     THEN Returns(card_number)
     ELSE Raises("InvalidLengthForBrand", "ValueError", <<brand(card_number), required_length>>)

(***************************************************************************)
(* The validators a caller attaches: one that returns its argument, one    *)
(* that returns None, and one that raises, for each kind of exception.     *)
(***************************************************************************)
UserFns == {"user_pass", "user_none", "user_value_error", "user_type_error",
            "user_assertion_error", "user_key_error"}

UserValidator(fn, v) ==
  CASE fn = "user_pass" -> Returns(v)
    [] fn = "user_none" -> Returns(NoneV)
    [] fn = "user_value_error" -> Raises("ValueError", "ValueError", <<>>)
    [] fn = "user_type_error" -> Raises("TypeError", "TypeError", <<>>)
    [] fn = "user_assertion_error" -> Raises("AssertionError", "AssertionError", <<>>)
    [] OTHER -> Raises("KeyError", "KeyError", <<>>)

\* validator(cls, v, values, self, self.model_config)
CallValidator(F, v, fld) ==
  CASE F.fn = "int_validator" -> int_validator(v)
    [] F.fn = "strict_int_validator" -> strict_int_validator(v)
    [] F.fn = "str_validator" -> str_validator(v)
    [] F.fn = "strict_str_validator" -> strict_str_validator(v)
    [] F.fn = "constr_strip_whitespace" -> constr_strip_whitespace(v, fld.type_.cfg)
    [] F.fn = "constr_length_validator" -> constr_length_validator(v, fld.type_.cfg)
    [] F.fn = "number_size_validator" -> number_size_validator(v, fld.type_.cfg)
    [] F.fn = "number_multiple_validator" -> number_multiple_validator(v, fld.type_.cfg)
    [] F.fn = "ConstrainedStr.validate" -> ConstrainedStr_validate(v, F.cfg)
    [] F.fn = "list_length_validator" -> list_length_validator(v, F.cfg)
    [] F.fn = "validate_json" -> validate_json(v)
    [] F.fn = "literal_validator" -> literal_validator(v, fld.type_.lit)
    [] F.fn = "decimal_validator" -> decimal_validator(v)
    [] F.fn = "ConstrainedDecimal.validate" -> ConstrainedDecimal_validate(v, F.cfg)
    [] F.fn = "validate_digits" -> validate_digits(v)
    [] F.fn = "validate_luhn_check_digit" -> validate_luhn_check_digit(v)
    [] F.fn = "PaymentCardNumber" -> Returns(PaymentCardNumber(v))
    [] F.fn = "validate_length_for_brand" -> validate_length_for_brand(v)
    [] OTHER -> UserValidator(F.fn, v)

(***************************************************************************)
(* Type descriptors: origin is __origin__ ("" when the type has none),     *)
(* args is __args__, name the class, cfg the class attributes of a         *)
(* constrained type, lit the values of a Literal.                          *)
(***************************************************************************)
Plain(name) == [origin |-> "", name |-> name, args |-> <<>>, cfg |-> NoCfg, lit |-> <<>>]

Generic(origin, args) ==
  [origin |-> origin, name |-> origin, args |-> args, cfg |-> NoCfg, lit |-> <<>>]

IntT == Plain("int")

StrT == Plain("str")

AnyT == Plain("Any")

NoneTypeT == Plain("NoneType")

EllipsisT == Plain("Ellipsis")

UnionT(args) == Generic("Union", args)

OptionalT(t) == UnionT(<<t, NoneTypeT>>)

\* Literal[v1, ...]
LiteralT(values) == [origin |-> "", name |-> "Literal", args |-> <<>>, cfg |-> NoCfg, lit |-> values]

\* Json[t]
JsonWrapperT(t) == [origin |-> "", name |-> "JsonWrapper", args |-> <<t>>, cfg |-> NoCfg, lit |-> <<>>]

\* constr(...)
constr(strip_whitespace, strict, min_length, max_length, curtail_length, regex) ==
  [origin |-> "", name |-> "ConstrainedStr", args |-> <<>>, lit |-> <<>>,
   cfg |-> [NoCfg EXCEPT !.strip_whitespace = strip_whitespace, !.strict = strict,
                         !.min_length = min_length, !.max_length = max_length,
                         !.curtail_length = curtail_length, !.regex = regex]]

\* conint(...)
conint(strict, gt, ge, lt, le, multiple_of) ==
  [origin |-> "", name |-> "ConstrainedInt", args |-> <<>>, lit |-> <<>>,
   cfg |-> [NoCfg EXCEPT !.strict = strict, !.gt = gt, !.ge = ge, !.lt = lt, !.le = le,
                         !.multiple_of = multiple_of]]

\* condecimal(max_digits=..., decimal_places=...), the bounds and multiple_of None
condecimal(max_digits, decimal_places) ==
  [origin |-> "", name |-> "ConstrainedDecimal", args |-> <<>>, lit |-> <<>>,
   cfg |-> [NoCfg EXCEPT !.max_digits = max_digits, !.decimal_places = decimal_places]]

\* class PaymentCardNumber(str): strip_whitespace, min_length, max_length
PaymentCardNumberT ==
  [origin |-> "", name |-> "PaymentCardNumber", args |-> <<>>, lit |-> <<>>,
   cfg |-> [NoCfg EXCEPT !.strip_whitespace = TRUE, !.min_length = 12, !.max_length = 19]]

\* conlist(item_type, ...): __origin__ is list, __args__ is [item_type]
conlist(item_type, min_items, max_items) ==
  [origin |-> "list", name |-> "ConstrainedList", args |-> <<item_type>>, lit |-> <<>>,
   cfg |-> [NoCfg EXCEPT !.min_items = min_items, !.max_items = max_items]]

\* a faulty variant of ConstrainedNumberMeta: only gt with ge is refused
ConstrainedNumberMetaGtGe(td) ==
  IF td.cfg.gt # NoneInt /\ td.cfg.ge # NoneInt THEN "ConfigError" ELSE ""

\* ConstrainedNumberMeta.__new__: the ConfigError of conflicting bounds
ConstrainedNumberMeta(td) ==
  IF td.cfg.gt # NoneInt /\ td.cfg.ge # NoneInt THEN "ConfigError"
  ELSE IF td.cfg.lt # NoneInt /\ td.cfg.le # NoneInt THEN "ConfigError"
  ELSE ""

\* getattr(type_, '__get_validators__', None)
HasGetValidators(td) ==
  td.name \in {"ConstrainedStr", "ConstrainedInt", "ConstrainedList", "PaymentCardNumber",
               "ConstrainedDecimal"}

\* ConstrainedStr.__get_validators__, ConstrainedInt.__get_validators__,
\* ConstrainedList.__get_validators__
GetValidators(td) ==
  CASE td.name = "ConstrainedStr" ->
         <<Fn(IF td.cfg.strict THEN "strict_str_validator" ELSE "str_validator"),
           Fn("constr_strip_whitespace"), Fn("constr_length_validator"),
           BoundFn("ConstrainedStr.validate", td.cfg)>>
    [] td.name = "ConstrainedInt" ->
         <<Fn(IF td.cfg.strict THEN "strict_int_validator" ELSE "int_validator"),
           Fn("number_size_validator"), Fn("number_multiple_validator")>>
    [] td.name = "ConstrainedDecimal" ->
         <<Fn("decimal_validator"), Fn("number_size_validator"),
           Fn("number_multiple_validator"), BoundFn("ConstrainedDecimal.validate", td.cfg)>>
    [] td.name = "PaymentCardNumber" ->
         <<Fn("str_validator"), Fn("constr_strip_whitespace"), Fn("constr_length_validator"),
           Fn("validate_digits"), Fn("validate_luhn_check_digit"), Fn("PaymentCardNumber"),
           Fn("validate_length_for_brand")>>
    [] OTHER -> <<BoundFn("list_length_validator", td.cfg)>>

\* validators.find_validators: whether a validator chain is found for the type
FindValidatorsFails(td) == ~(td.name \in {"int", "str", "Any", "Literal"} /\ td.origin = "")

\* validators.find_validators: the chain of the type, none for Any
find_validators(td) ==
  CASE td.name = "int" -> <<Fn("int_validator")>>
    [] td.name = "str" -> <<Fn("str_validator")>>
    [] td.name = "Literal" -> <<Fn("literal_validator")>>
    [] OTHER -> <<>>

(***************************************************************************)
(* class_validators: an ordered dict of Validator(func, each_item, pre,    *)
(* always), here a sequence of entries with distinct keys.                 *)
(***************************************************************************)
Validator(key, func, each_item, pre, always) ==
  [key |-> key, func |-> func, each_item |-> each_item, pre |-> pre, always |-> always]

RECURSIVE DictUpdate(_, _)
\* dict.update: a known key is overwritten in place, a new one is appended
DictUpdate(d, more) ==
  IF more = <<>> THEN d
  ELSE LET e == more[1]
           at == {k \in DOMAIN d : d[k].key = e.key}
       IN DictUpdate(IF at = {} THEN Append(d, e)
                     ELSE [k \in DOMAIN d |-> IF k \in at THEN e ELSE d[k]],
                     Tail(more))

Funcs(q) == [k \in DOMAIN q |-> q[k].func]

\* issubclass(origin, X) for the classes _type_analysis asks about
IsSubclass(origin, X) ==
  CASE X = "Tuple" -> origin = "tuple"
    [] X = "List" -> origin = "list"
    [] X = "Set" -> origin = "set"
    [] X = "FrozenSet" -> origin = "frozenset"
    [] X = "Sequence" -> origin \in {"Sequence", "list", "tuple"}
    [] X = "Mapping" -> origin \in {"dict", "Mapping"}
    [] X = "Type" -> origin = "type"
    [] OTHER -> FALSE

(***************************************************************************)
(* Field.  sub_fields and key_field are sequences: None and the empty list *)
(* are both <<>> (the code only asks whether they are empty), and so are   *)
(* pre_validators and post_validators.  error is the exception that left   *)
(* the constructor, "" when there was none.                                *)
(***************************************************************************)
RECURSIVE NewField(_, _, _, _, _)
RECURSIVE TypeAnalysis(_)
RECURSIVE TupleAnalysis(_, _, _)

\* Field.__init__ up to the call of prepare
FieldInit(name, type_, class_validators, default, required) ==
  [name |-> name, type_ |-> type_, class_validators |-> class_validators,
   default |-> default, required |-> required, allow_none |-> FALSE,
   validate_always |-> FALSE, sub_fields |-> <<>>, key_field |-> <<>>,
   validators |-> <<>>, pre_validators |-> <<>>, post_validators |-> <<>>,
   parse_json |-> FALSE, shape |-> SHAPE_SINGLETON, error |-> ""]

\* Field._create_sub_type
CreateSubType(f, type_, name, for_keys) ==
  NewField(name, type_,
           IF for_keys THEN <<>> ELSE SelectSeq(f.class_validators, LAMBDA v : v.each_item),
           NoneV, TRUE)

\* self.sub_fields = [...]: an exception of a sub-field's constructor leaves this one too
WithSubFields(f, subs) ==
  LET bad == {k \in DOMAIN subs : subs[k].error # ""}
  IN IF bad = {} THEN [f EXCEPT !.sub_fields = subs]
     ELSE [f EXCEPT !.error = subs[CHOOSE k \in bad : \A j \in bad : k <= j].error]

\* _type_analysis, the Union branch
UnionAnalysis(f) ==
  LET args == f.type_.args
      types_ == SelectSeq(args, LAMBDA t : t.name # "NoneType")
      g == IF \E k \in DOMAIN args : args[k].name = "NoneType"
           THEN [f EXCEPT !.required = FALSE, !.allow_none = TRUE]
           ELSE f
  IN IF Len(types_) = 1
     THEN TypeAnalysis([g EXCEPT !.type_ = types_[1]])
     ELSE WithSubFields(g, [k \in DOMAIN types_ |->
                              CreateSubType(g, types_[k], g.name \o <<"_", types_[k].name>>, FALSE)])

\* _type_analysis, the Tuple branch from position i on
TupleAnalysis(f, args, i) ==
  IF i > Len(args) THEN f
  ELSE IF args[i] = EllipsisT
  THEN [f EXCEPT !.type_ = args[1], !.shape = SHAPE_TUPLE_ELLIPSIS]
  ELSE LET sub == CreateSubType(f, args[i], f.name \o <<"_", ToString(i - 1)>>, FALSE)
       IN IF sub.error # "" THEN [f EXCEPT !.error = sub.error]
          ELSE TupleAnalysis([f EXCEPT !.sub_fields = Append(@, sub)], args, i + 1)

\* the validators a list-like type brings, as class validators list_0, list_1, ...
ListValidators(td) ==
  [i \in DOMAIN GetValidators(td) |->
     Validator("list_" \o ToString(i - 1), GetValidators(td)[i], FALSE, TRUE, TRUE)]

\* a faulty variant of ElementSubField: no element sub-field is made
ElementSubFieldMissing(f) == f

\* _type_analysis, its last line: the one element sub-field
ElementSubField(f) ==
  IF f.error # "" THEN f
  ELSE WithSubFields(f, <<CreateSubType(f, f.type_, <<"_">> \o f.name, FALSE)>>)

\* _type_analysis, the branches of the containers
ContainerAnalysis(f) ==
  LET origin == f.type_.origin
      args == f.type_.args
  IN IF IsSubclass(origin, "List")
     THEN ElementSubField([f EXCEPT !.class_validators =
                                      IF HasGetValidators(f.type_)
                                      THEN DictUpdate(@, ListValidators(f.type_)) ELSE @,
                                    !.type_ = args[1], !.shape = SHAPE_LIST])
     ELSE IF IsSubclass(origin, "Set")
     THEN ElementSubField([f EXCEPT !.type_ = args[1], !.shape = SHAPE_SET])
     ELSE IF IsSubclass(origin, "FrozenSet")
     THEN ElementSubField([f EXCEPT !.type_ = args[1], !.shape = SHAPE_FROZENSET])
     ELSE IF IsSubclass(origin, "Sequence")
     THEN ElementSubField([f EXCEPT !.type_ = args[1], !.shape = SHAPE_SEQUENCE])
     ELSE IF IsSubclass(origin, "Mapping")
     THEN LET key == CreateSubType(f, args[1], <<"key_">> \o f.name, TRUE)
          IN ElementSubField([f EXCEPT !.key_field = <<key>>, !.type_ = args[2],
                                       !.shape = SHAPE_MAPPING, !.error = key.error])
     ELSE IF IsSubclass(origin, "Type") THEN f
     ELSE [f EXCEPT !.error = "TypeError"]

\* Field._type_analysis
TypeAnalysis(f0) ==
  LET f == IF f0.type_.name = "JsonWrapper"
           THEN [f0 EXCEPT !.type_ = f0.type_.args[1], !.parse_json = TRUE]
           ELSE IF f0.type_.name = "Json"
           THEN [f0 EXCEPT !.type_ = AnyT, !.parse_json = TRUE]
           ELSE f0
  IN IF f.type_.name = "Pattern" THEN f
     ELSE IF f.type_.name = "Literal" /\ Len(f.type_.lit) <= 1 THEN f
     ELSE LET g == IF f.type_.name = "Literal"
                   THEN [f EXCEPT !.type_ = UnionT([k \in DOMAIN f.type_.lit |->
                                                      LiteralT(<<f.type_.lit[k]>>)])]
                   ELSE f
              origin == g.type_.origin
          IN IF origin = "" THEN g
             ELSE IF origin = "Callable" THEN g
             ELSE IF origin = "Union" THEN UnionAnalysis(g)
             ELSE IF IsSubclass(origin, "Tuple")
             THEN TupleAnalysis([g EXCEPT !.shape = SHAPE_TUPLE, !.sub_fields = <<>>],
                                g.type_.args, 1)
             ELSE ContainerAnalysis(g)

\* Field._populate_validators
PopulateValidators(f) ==
  LET cv == f.class_validators
      own == HasGetValidators(f.type_)
      v_funcs == Funcs(SelectSeq(cv, LAMBDA v : v.each_item /\ v.pre))
                 \o (IF own THEN GetValidators(f.type_) ELSE find_validators(f.type_))
                 \o Funcs(SelectSeq(cv, LAMBDA v : v.each_item /\ ~v.pre))
      pre == Funcs(SelectSeq(cv, LAMBDA v : ~v.each_item /\ v.pre))
             \o (IF f.parse_json THEN <<Fn("validate_json")>> ELSE <<>>)
      post == Funcs(SelectSeq(cv, LAMBDA v : ~v.each_item /\ ~v.pre))
  IN IF f.sub_fields = <<>> /\ ~own /\ FindValidatorsFails(f.type_)
     THEN [f EXCEPT !.error = "RuntimeError"]
     ELSE [f EXCEPT !.validators = IF f.sub_fields = <<>> THEN v_funcs ELSE <<>>,
                    !.pre_validators = pre, !.post_validators = post]

\* getattr(self.type_, 'validate_always', False)
TypeValidateAlways(td) == td.name = "PyObject"

\* Field.prepare
Prepare(f) ==
  LET f1 == [f EXCEPT !.validate_always =
                        TypeValidateAlways(f.type_)
                        \/ \E k \in DOMAIN f.class_validators : f.class_validators[k].always]
      f2 == IF ~f1.required /\ f1.default = NoneV THEN [f1 EXCEPT !.allow_none = TRUE] ELSE f1
      f3 == TypeAnalysis(f2)
  IN IF f3.error # "" THEN f3 ELSE PopulateValidators(f3)

\* Field.__init__
NewField(name, type_, class_validators, default, required) ==
  Prepare(FieldInit(name, type_, class_validators, default, required))

(***************************************************************************)
(* Validation.  A call yields                                              *)
(*   value, errors   the pair it returns                                   *)
(*   raised          the class of an exception that left the call instead  *)
(*   vin             the object it was given, as the call left it          *)
(*   trace           the calls made, in order: ev is "validate" (a         *)
(*                   Field.validate), "shape" (a shape-specific method,    *)
(*                   fn), or "pre", "validator", "post" (a validator fn of *)
(*                   that chain), with the field's name and the location   *)
(***************************************************************************)
Res(value, errors, vin, trace) ==
  [value |-> value, errors |-> errors, raised |-> "", vin |-> vin, trace |-> trace]

Raised(exc, vin, trace) ==
  [value |-> NoneV, errors |-> NoErr, raised |-> exc, vin |-> vin, trace |-> trace]

Ev(ev, fld, fn, loc) == [ev |-> ev, name |-> fld.name, fn |-> fn, loc |-> loc]

After(trace, r) == [r EXCEPT !.trace = trace \o @]

\* utils.sequence_like: list, tuple, set, frozenset or generator
sequence_like(v) == v.kind \in {"list", "tuple", "set", "frozenset", "generator"}

\* validators.dict_validator: a dict as it is, else dict(v), else DictError
dict_validator(v) ==
  CASE v.kind = "dict" -> [exc |-> "", v_iter |-> v, vin |-> v]
    [] v.kind \in {"list", "tuple", "set", "frozenset", "generator", "list_iterator"}
         /\ v.items = <<>> -> [exc |-> "", v_iter |-> NewDict(<<>>), vin |-> v]
    [] v.kind = "str" /\ v.s = <<>> -> [exc |-> "", v_iter |-> NewDict(<<>>), vin |-> v]
    [] OTHER -> [exc |-> "DictError", v_iter |-> NoneV,
                 vin |-> IF v.kind \in {"generator", "list_iterator"}
                         THEN [v EXCEPT !.items = Tail(@)] ELSE v]

RECURSIVE ApplyValidators(_, _, _, _, _)
RECURSIVE Validate(_, _, _)
RECURSIVE ValidateSingleton(_, _, _)
RECURSIVE UnionLoop(_, _, _, _, _)
RECURSIVE SequenceLoop(_, _, _, _)
RECURSIVE TupleLoop(_, _, _, _)
RECURSIVE MappingLoop(_, _, _, _)

\* a faulty variant of ApplyValidator: `except Exception`, every exception of a
\* validator is wrapped
ApplyValidatorCatchAll(out, ev, fld, v, loc, validators, tag) ==
  IF out.exc = ""
  THEN [ApplyValidators(fld, out.v, loc, Tail(validators), tag) EXCEPT !.trace = ev \o @, !.vin = v]
  ELSE Res(v, ErrorWrapper(out.exc, out.base, out.args, loc), v, ev)

\* _apply_validators, one turn of its loop: out is what the validator did
ApplyValidator(out, ev, fld, v, loc, validators, tag) ==
  IF out.exc = ""
  THEN [ApplyValidators(fld, out.v, loc, Tail(validators), tag) EXCEPT !.trace = ev \o @, !.vin = v]
  ELSE IF out.base \in {"ValueError", "TypeError", "AssertionError"}
  THEN Res(v, ErrorWrapper(out.exc, out.base, out.args, loc), v, ev)
  ELSE Raised(out.exc, v, ev)

\* Field._apply_validators; tag names the chain in the trace
ApplyValidators(fld, v, loc, validators, tag) ==
  IF validators = <<>> THEN Res(v, NoErr, v, <<>>)
  ELSE ApplyValidator(CallValidator(validators[1], v, fld),
                      <<Ev(tag, fld, validators[1].fn, loc)>>, fld, v, loc, validators, tag)

\* a faulty variant of UnionStep: only the error of the last sub-field is kept
UnionStepLastError(r, fld, loc, k, errors) ==
  IF r.raised # "" THEN r
  ELSE IF Truthy(r.errors)
  THEN After(r.trace, UnionLoop(fld, r.vin, loc, k + 1, <<r.errors>>))
  ELSE Res(r.value, NoErr, r.vin, r.trace)

\* _validate_singleton, one turn of the loop over the sub-fields: r is what the
\* k-th sub-field's validate returned
UnionStep(r, fld, loc, k, errors) ==
  IF r.raised # "" THEN r
  ELSE IF Truthy(r.errors)
  THEN After(r.trace, UnionLoop(fld, r.vin, loc, k + 1, Append(errors, r.errors)))
  ELSE Res(r.value, NoErr, r.vin, r.trace)

\* _validate_singleton, the loop over the sub-fields from the k-th on
UnionLoop(fld, v, loc, k, errors) ==
  IF k > Len(fld.sub_fields) THEN Res(v, ErrorListOf(errors), v, <<>>)
  ELSE UnionStep(Validate(fld.sub_fields[k], v, loc), fld, loc, k, errors)

\* Field._validate_singleton
ValidateSingleton(fld, v, loc) ==
  After(<<Ev("shape", fld, "_validate_singleton", loc)>>,
        IF fld.sub_fields # <<>>
        THEN UnionLoop(fld, v, loc, 1, <<>>)
        ELSE ApplyValidators(fld, v, loc, fld.validators, "validator"))

\* the state of a loop over elements: result and errors as lists, raised, trace
LoopDone == [result |-> <<>>, errors |-> <<>>, raised |-> "", trace |-> <<>>]

\* a faulty variant of LoopStep: the loop returns at the first failing element
LoopStepShortCircuit(r, rest) ==
  IF r.raised # "" \/ Truthy(r.errors)
  THEN [result |-> <<>>, errors |-> IF r.raised # "" THEN <<>> ELSE <<r.errors>>,
        raised |-> r.raised, trace |-> r.trace]
  ELSE [result |-> <<r.value>> \o rest.result, errors |-> rest.errors,
        raised |-> rest.raised, trace |-> r.trace \o rest.trace]

\* one turn of such a loop: r is what the element's validation returned, rest the
\* turns after it
\*     if ee: errors.append(ee)
\*     else: result.append(r)
LoopStep(r, rest) ==
  IF r.raised # ""
  THEN [result |-> <<>>, errors |-> <<>>, raised |-> r.raised, trace |-> r.trace]
  ELSE [result |-> IF Truthy(r.errors) THEN rest.result ELSE <<r.value>> \o rest.result,
        errors |-> IF Truthy(r.errors) THEN <<r.errors>> \o rest.errors ELSE rest.errors,
        raised |-> rest.raised,
        trace |-> r.trace \o rest.trace]

\* _validate_sequence_like, the loop over enumerate(v) from the i-th element on
SequenceLoop(fld, items, loc, i) ==
  IF i > Len(items) THEN LoopDone
  ELSE LoopStep(ValidateSingleton(fld, items[i], Append(loc, IntV(i - 1))),
                SequenceLoop(fld, items, loc, i + 1))

\* _validate_sequence_like, the error of an input that is not sequence-like
SequenceError(shape) ==
  CASE shape = SHAPE_LIST -> "ListError"
    [] shape = SHAPE_SET -> "SetError"
    [] shape = SHAPE_FROZENSET -> "FrozenSetError"
    [] OTHER -> "SequenceError"

\* a faulty variant of Converted: the sequence shape always gives the list
ConvertedSequenceAsList(shape, v, result) ==
  CASE shape = SHAPE_SET -> NewSet(result)
    [] shape = SHAPE_FROZENSET -> NewFrozenset(result)
    [] shape = SHAPE_TUPLE_ELLIPSIS -> NewTuple(result)
    [] OTHER -> NewList(result)

\* _validate_sequence_like, the container built from the validated elements
Converted(shape, v, result) ==
  CASE shape = SHAPE_SET -> NewSet(result)
    [] shape = SHAPE_FROZENSET -> NewFrozenset(result)
    [] shape = SHAPE_TUPLE_ELLIPSIS -> NewTuple(result)
    [] shape = SHAPE_SEQUENCE /\ v.kind = "tuple" -> NewTuple(result)
    [] shape = SHAPE_SEQUENCE /\ v.kind = "set" -> NewSet(result)
    [] shape = SHAPE_SEQUENCE /\ v.kind = "generator" -> NewIter(result)
    [] OTHER -> NewList(result)

\* _validate_sequence_like after its loop lp
SequenceReturn(lp, fld, v, ev) ==
  IF lp.raised # "" THEN Raised(lp.raised, Consumed(v), ev \o lp.trace)
  ELSE IF lp.errors # <<>>
  THEN Res(Consumed(v), ErrorListOf(lp.errors), Consumed(v), ev \o lp.trace)
  ELSE Res(Converted(fld.shape, v, lp.result), NoErr, Consumed(v), ev \o lp.trace)

\* Field._validate_sequence_like
ValidateSequenceLike(fld, v, loc) ==
  IF ~sequence_like(v)
  THEN Res(v, ErrorWrapper(SequenceError(fld.shape), "TypeError", <<>>, loc), v,
           <<Ev("shape", fld, "_validate_sequence_like", loc)>>)
  ELSE SequenceReturn(SequenceLoop(fld, v.items, loc, 1), fld, v,
                      <<Ev("shape", fld, "_validate_sequence_like", loc)>>)

\* _validate_tuple, the loop over zip(v, self.sub_fields) from the i-th position on
TupleLoop(fld, items, loc, i) ==
  IF i > Len(items) \/ i > Len(fld.sub_fields) THEN LoopDone
  ELSE LoopStep(Validate(fld.sub_fields[i], items[i], Append(loc, IntV(i - 1))),
                TupleLoop(fld, items, loc, i + 1))

\* _validate_tuple after its loop lp
TupleReturn(lp, v, ev) ==
  IF lp.raised # "" THEN Raised(lp.raised, v, ev \o lp.trace)
  ELSE IF lp.errors # <<>> THEN Res(v, ErrorListOf(lp.errors), v, ev \o lp.trace)
  ELSE Res(NewTuple(lp.result), NoErr, v, ev \o lp.trace)

\* a faulty variant of ValidateTuple: the lengths are not compared, and zip stops
\* at the shorter of the two
ValidateTupleAnyLength(fld, v, loc) ==
  IF ~sequence_like(v)
  THEN Res(v, ErrorWrapper("TupleError", "TypeError", <<>>, loc), v,
           <<Ev("shape", fld, "_validate_tuple", loc)>>)
  ELSE TupleReturn(TupleLoop(fld, v.items, loc, 1), v,
                   <<Ev("shape", fld, "_validate_tuple", loc)>>)

\* Field._validate_tuple
ValidateTuple(fld, v, loc) ==
  IF ~sequence_like(v)
  THEN Res(v, ErrorWrapper("TupleError", "TypeError", <<>>, loc), v,
           <<Ev("shape", fld, "_validate_tuple", loc)>>)
  ELSE IF PyLen(v) < 0
  THEN Raised("TypeError", v, <<Ev("shape", fld, "_validate_tuple", loc)>>)
  ELSE IF PyLen(v) # Len(fld.sub_fields)
  THEN Res(v, ErrorWrapper("TupleLengthError", "ValueError",
                           <<PyLen(v), Len(fld.sub_fields)>>, loc), v,
           <<Ev("shape", fld, "_validate_tuple", loc)>>)
  ELSE TupleReturn(TupleLoop(fld, v.items, loc, 1), v,
                   <<Ev("shape", fld, "_validate_tuple", loc)>>)

\* _validate_mapping, one entry whose key validated: val is what the value's
\* validation returned, rest the entries after it
\*     if value_errors: errors.append(value_errors); continue
\*     result[key_result] = value_result
MappingValue(key, val, rest) ==
  IF val.raised # ""
  THEN [result |-> <<>>, errors |-> <<>>, raised |-> val.raised, trace |-> key.trace \o val.trace]
  ELSE IF Truthy(val.errors)
  THEN [rest EXCEPT !.errors = <<val.errors>> \o @, !.trace = key.trace \o val.trace \o @]
  ELSE [rest EXCEPT !.result = <<PairV(key.value, val.value)>> \o @,
                    !.trace = key.trace \o val.trace \o @]

\* a faulty variant of MappingKey: `break` in the place of the first `continue`
MappingKeyBreak(key, fld, pairs, loc, i) ==
  IF key.raised # ""
  THEN [result |-> <<>>, errors |-> <<>>, raised |-> key.raised, trace |-> key.trace]
  ELSE IF Truthy(key.errors)
  THEN [result |-> <<>>, errors |-> <<key.errors>>, raised |-> "", trace |-> key.trace]
  ELSE MappingValue(key,
                    ValidateSingleton(fld, pairs[i].items[2], Append(loc, pairs[i].items[1])),
                    MappingLoop(fld, pairs, loc, i + 1))

\* _validate_mapping, one entry: key is what the key's validation returned
\*     if key_errors: errors.append(key_errors); continue
MappingKey(key, fld, pairs, loc, i) ==
  IF key.raised # ""
  THEN [result |-> <<>>, errors |-> <<>>, raised |-> key.raised, trace |-> key.trace]
  ELSE IF Truthy(key.errors)
  THEN [MappingLoop(fld, pairs, loc, i + 1)
          EXCEPT !.errors = <<key.errors>> \o @, !.trace = key.trace \o @]
  ELSE MappingValue(key,
                    ValidateSingleton(fld, pairs[i].items[2], Append(loc, pairs[i].items[1])),
                    MappingLoop(fld, pairs, loc, i + 1))

\* _validate_mapping, the loop over v_iter.items() from the i-th entry on; result
\* holds the (key_result, value_result) pairs in the order they are stored
MappingLoop(fld, pairs, loc, i) ==
  IF i > Len(pairs) THEN LoopDone
  ELSE MappingKey(Validate(fld.key_field[1], pairs[i].items[1], Append(loc, StrV(<<"__key__">>))),
                  fld, pairs, loc, i)

RECURSIVE DictOf(_)
\* the dict that `result[key_result] = value_result`, pair after pair, builds
DictOf(pairs) ==
  IF pairs = <<>> THEN <<>>
  ELSE DictSet(DictOf(SubSeq(pairs, 1, Len(pairs) - 1)),
               pairs[Len(pairs)].items[1], pairs[Len(pairs)].items[2])

\* _validate_mapping after its loop lp
MappingReturn(lp, vin, ev) ==
  IF lp.raised # "" THEN Raised(lp.raised, vin, ev \o lp.trace)
  ELSE IF lp.errors # <<>> THEN Res(vin, ErrorListOf(lp.errors), vin, ev \o lp.trace)
  ELSE Res(NewDict(DictOf(lp.result)), NoErr, vin, ev \o lp.trace)

\* _validate_mapping after dict_validator returned or raised d
MappingOf(d, fld, loc, ev) ==
  IF d.exc # ""
  THEN Res(d.vin, ErrorWrapper(d.exc, "TypeError", <<>>, loc), d.vin, ev)
  ELSE MappingReturn(MappingLoop(fld, d.v_iter.items, loc, 1), d.vin, ev)

\* Field._validate_mapping
ValidateMapping(fld, v, loc) ==
  MappingOf(dict_validator(v), fld, loc, <<Ev("shape", fld, "_validate_mapping", loc)>>)

\* Field.validate, the dispatch on the shape
ValidateShape(fld, v, loc) ==
  IF fld.shape = SHAPE_SINGLETON THEN ValidateSingleton(fld, v, loc)
  ELSE IF fld.shape = SHAPE_MAPPING THEN ValidateMapping(fld, v, loc)
  ELSE IF fld.shape = SHAPE_TUPLE THEN ValidateTuple(fld, v, loc)
  ELSE ValidateSequenceLike(fld, v, loc)

\* Field.validate, its end: sh is what the shape's method returned; vin is the
\* caller's object as the call leaves it
\*     if not errors and self.post_validators: ...
ValidatePost(sh, fld, loc, vin, trace) ==
  IF sh.raised = "" /\ ~Truthy(sh.errors) /\ fld.post_validators # <<>>
  THEN [ApplyValidators(fld, sh.value, loc, fld.post_validators, "post")
          EXCEPT !.trace = trace \o sh.trace \o @, !.vin = vin]
  ELSE [sh EXCEPT !.trace = trace \o @, !.vin = vin]

\* the same when the shape's method was given the caller's object itself
ValidateSame(sh, fld, loc, trace) == ValidatePost(sh, fld, loc, sh.vin, trace)

\* Field.validate from `if v is None` on: v is the value of the pre-validators,
\* vin the caller's object
ValidateValue(fld, v, loc, vin, trace) ==
  IF v = NoneV
  THEN IF fld.allow_none
       THEN IF fld.post_validators # <<>>
            THEN [ApplyValidators(fld, v, loc, fld.post_validators, "post")
                    EXCEPT !.trace = trace \o @, !.vin = vin]
            ELSE Res(NoneV, NoErr, vin, trace)
       ELSE Res(v, ErrorWrapper("NoneIsNotAllowedError", "TypeError", <<>>, loc), vin, trace)
  ELSE IF v = vin
  THEN ValidateSame(ValidateShape(fld, v, loc), fld, loc, trace)
  ELSE ValidatePost(ValidateShape(fld, v, loc), fld, loc, vin, trace)

\* a faulty variant of ValidatePre: the errors of the pre-validators do not end
\* the call
ValidatePreNoReturn(pre, fld, v, loc, ev) ==
  IF pre.raised # "" THEN After(ev, pre)
  ELSE ValidateValue(fld, pre.value, loc, v, ev \o pre.trace)

\* Field.validate after its pre-validators returned pre
ValidatePre(pre, fld, v, loc, ev) ==
  IF pre.raised # "" \/ Truthy(pre.errors) THEN After(ev, pre)
  ELSE ValidateValue(fld, pre.value, loc, v, ev \o pre.trace)

\* Field.validate
Validate(fld, v, loc) ==
  ValidatePre(IF fld.pre_validators # <<>>
              THEN ApplyValidators(fld, v, loc, fld.pre_validators, "pre")
              ELSE Res(v, NoErr, v, <<>>),
              fld, v, loc, <<Ev("validate", fld, "", loc)>>)

(***************************************************************************)
(* The inputs: type descriptors, class validators and values.              *)
(***************************************************************************)
\* the elements of container inputs: an int, and a str int() rejects
Elems == {IntV(1), StrV(<<"a">>)}

\* the keys of dict inputs: an int, the str int() turns into it, and a str it rejects
Keys == {IntV(1), StrV(<<"1">>), StrV(<<"a">>)}

\* a container object handed in by the caller; every empty tuple is the one shared
\* object, and every empty frozenset is when the runtime shares it
InputObj(kind, items) ==
  Obj(kind, items,
      IF kind = "tuple" /\ items = <<>> THEN "empty_tuple"
      ELSE IF kind = "frozenset" /\ items = <<>> /\ runtime.shareEmptyFrozenset
      THEN "empty_frozenset"
      ELSE "input")

Containers ==
  {InputObj(kind, items) : kind \in {"list", "tuple", "generator"}, items \in SeqsUpTo(Elems, MaxLen)}
  \cup {InputObj(kind, items) : kind \in {"set", "frozenset"},
                                items \in {q \in SeqsUpTo(Elems, MaxLen) : NoDup(q)}}

Dicts ==
  {InputObj("dict", [k \in DOMAIN p[1] |-> PairV(p[1][k], p[2][k])]) :
     p \in {p \in SeqsUpTo(Keys, MaxEntries) \X SeqsUpTo(Elems, MaxEntries) :
              Len(p[1]) = Len(p[2]) /\ NoDup(p[1])}}

\* the characters of str inputs: a letter, a blank and a digit
Chars == {"a", " ", "1"}

Values ==
  {NoneV} \cup {IntV(n) : n \in 0..MaxInt} \cup {StrV(s) : s \in SeqsUpTo(Chars, MaxStrLen)}
  \cup Containers \cup Dicts

\* the validators of the caller: Validator(func, each_item, pre, always)
PreV(fn) == Validator("pre_" \o fn, Fn(fn), FALSE, TRUE, FALSE)

PostV(fn) == Validator("post_" \o fn, Fn(fn), FALSE, FALSE, FALSE)

ItemV(fn) == Validator("item_" \o fn, Fn(fn), TRUE, FALSE, FALSE)

\* @validator('f', always=True)
AlwaysV(fn) == Validator("always_" \o fn, Fn(fn), FALSE, FALSE, TRUE)

ClassValidators ==
  {<<PreV(fn)>> : fn \in UserFns}
  \cup {<<PostV(fn)>> : fn \in UserFns \ {"user_none"}}
  \cup {<<ItemV(fn)>> : fn \in {"user_value_error", "user_key_error"}}
  \cup {<<AlwaysV("user_pass")>>}
  \cup {<<PreV("user_pass"), PreV("user_value_error"), PostV("user_pass")>>,
        <<PreV("user_type_error"), PreV("user_pass")>>,
        <<PreV("user_pass"), PostV("user_pass"), PostV("user_assertion_error")>>}

PositiveInt == conint(FALSE, 0, NoneInt, NoneInt, NoneInt, NoneInt)

LeafTypes == {IntT, StrT, PositiveInt}

UnionTypes ==
  {UnionT(<<IntT, StrT>>), UnionT(<<PositiveInt, IntT>>), UnionT(<<IntT, StrT, NoneTypeT>>),
   UnionT(<<PositiveInt, IntT, StrT>>)}

TupleTypes ==
  {Generic("tuple", [k \in 1..n |-> IntT]) : n \in 0..MaxArity}
  \cup {Generic("tuple", <<IntT, StrT>>), Generic("tuple", <<IntT, EllipsisT>>)}

ContainerTypes ==
  {Generic(origin, <<IntT>>) : origin \in {"list", "set", "frozenset", "Sequence"}}
  \cup {Generic("list", <<UnionT(<<PositiveInt, IntT>>)>>)}
  \cup TupleTypes
  \cup {Generic("dict", <<k, IntT>>) : k \in {IntT, StrT}}
  \cup {Generic("dict", <<IntT, StrT>>)}
  \cup {conlist(IntT, lo, hi) : lo, hi \in {NoneInt, 1}}

OptionalTypes ==
  {OptionalT(t) : t \in {IntT, Generic("list", <<IntT>>), Generic("tuple", <<IntT, EllipsisT>>),
                         Generic("dict", <<IntT, IntT>>), conlist(IntT, NoneInt, NoneInt),
                         conlist(IntT, 1, NoneInt)}}

TypeDescriptors ==
  LeafTypes \cup UnionTypes \cup ContainerTypes \cup OptionalTypes
  \cup {Generic("Iterable", <<IntT>>), LiteralT(<<IntV(1), StrV(<<"a">>)>>), JsonWrapperT(IntT)}

\* the types the caller's validators are attached to
ValidatedTypes ==
  {IntT, UnionT(<<PositiveInt, IntT>>), Generic("list", <<IntT>>), Generic("tuple", <<IntT, IntT>>),
   Generic("dict", <<IntT, IntT>>), OptionalT(Generic("list", <<IntT>>))}

\* None or a number up to MaxBound, for a length or a bound
OptBound == {NoneInt} \cup 1..MaxBound

\* every constr(...) of the bounds
ConstrainedStrs ==
  {constr(sw, st, lo, hi, cu, re) :
     sw \in BOOLEAN, st \in BOOLEAN, lo \in OptBound, hi \in OptBound, cu \in OptBound,
     re \in {<<>>, <<"a">>}}

\* every conint(...) of the bounds the metaclass accepts, and some it rejects
ConstrainedInts ==
  {conint(st, gt, ge, lt, le, mu) :
     st \in BOOLEAN, gt \in OptBound, ge \in OptBound, lt \in OptBound, le \in OptBound,
     mu \in OptBound}

\* (type_, class_validators, required) of the fields constructed
FieldConfigs ==
  (TypeDescriptors \X {<<>>} \X BOOLEAN) \cup (ValidatedTypes \X ClassValidators \X {TRUE})
  \cup ((ConstrainedStrs \cup ConstrainedInts) \X {<<>>} \X {TRUE})

NoCall == Raised("", NoneV, <<>>)

FieldName == <<"f">>

Loc == <<StrV(FieldName)>>

(***************************************************************************)
(* The state machine: a Field is constructed once and then validates       *)
(* inputs; the output of a successful call may be validated again.         *)
(***************************************************************************)
NoConfig == <<AnyT, <<>>, TRUE>>

Init ==
  /\ config = NoConfig
  /\ field = FieldInit(FieldName, AnyT, <<>>, NoneV, TRUE)
  /\ input = NoneV
  /\ ret = NoCall
  /\ again = NoCall
  /\ phase = "new"
  /\ runtime \in [shareEmptyFrozenset : BOOLEAN]

\* the type is declared and Field(name=..., type_=..., class_validators=...,
\* required=...) constructed; declaring a conint of conflicting bounds raises
Construct ==
  /\ phase = "new"
  /\ \E c \in FieldConfigs :
       /\ config' = c
       /\ field' = IF ConstrainedNumberMeta(c[1]) # ""
                   THEN [FieldInit(FieldName, c[1], c[2], NoneV, c[3])
                           EXCEPT !.error = ConstrainedNumberMeta(c[1])]
                   ELSE NewField(FieldName, c[1], c[2], NoneV, c[3])
  /\ phase' = IF field'.error = "" THEN "ready" ELSE "config_error"
  /\ UNCHANGED <<input, ret, again, runtime>>

\* field.validate(v, values, loc=...)
Call ==
  /\ phase = "ready"
  /\ \E v \in Values :
       /\ input' = v
       /\ ret' = Validate(field, v, Loc)
  /\ again' = NoCall
  /\ phase' = "validated"
  /\ UNCHANGED <<config, field, runtime>>

\* field.validate(value, ...) on the value a successful call returned
Revalidate ==
  /\ phase = "validated"
  /\ ret.raised = ""
  /\ ~Truthy(ret.errors)
  /\ again' = Validate(field, ret.value, Loc)
  /\ phase' = "revalidated"
  /\ UNCHANGED <<config, field, input, ret, runtime>>

Next == Construct \/ Call \/ Revalidate

Spec == Init /\ [][Next]_vars

(***************************************************************************)
(* What the properties read off a state.                                   *)
(***************************************************************************)
\* what the pre-validators of the call made of the input (fields.py:315-318)
PreValue == ApplyValidators(field, input, Loc, field.pre_validators, "pre")

\* the call got past the pre-validators and the null check, into the method of
\* the field's shape, and no exception left it
ShapeEntered ==
  /\ phase \in {"validated", "revalidated"}
  /\ ~Truthy(PreValue.errors)
  /\ PreValue.raised = ""
  /\ PreValue.value # NoneV
  /\ ret.raised = ""

\* the events of a trace that are the field's own calls of its method fn at loc
CallsOf(trace, fn, loc) ==
  SelectSeq(trace, LAMBDA e : e.ev = "shape" /\ e.name = field.name /\ e.fn = fn /\ e.loc = loc)

\* the events of a trace that are Field.validate calls at location loc, other
\* than the call of the field itself
SubValidates(trace, loc) ==
  SelectSeq(trace, LAMBDA e : e.ev = "validate" /\ e.loc = loc /\ e.name # field.name)

\* every wrapper of an error structure is located at loc
LocatedAt(e, loc) == \A k \in DOMAIN Flatten(e) : Flatten(e)[k].loc = loc

\* loc + (i,) for the i-th element, counted from 1 here and from 0 there
At(i) == Append(Loc, IntV(i - 1))

SequenceShapes == {SHAPE_LIST, SHAPE_SET, SHAPE_FROZENSET, SHAPE_SEQUENCE, SHAPE_TUPLE_ELLIPSIS}

\* a field of a sequence shape was given a sequence-like object, and the loop
\* over its elements ended
SequenceCase ==
  /\ field.shape \in SequenceShapes
  /\ ShapeEntered
  /\ sequence_like(PreValue.value)

\* what the element sub-field makes of each element, taken one by one
ElementResults ==
  [i \in DOMAIN PreValue.value.items |-> ValidateSingleton(field, PreValue.value.items[i], At(i))]

\* the indexes of the elements that fail, in order
Failing == SelectSeq([i \in DOMAIN ElementResults |-> i], LAMBDA i : Truthy(ElementResults[i].errors))

(***************************************************************************)
(* C1: for a field of shape list, set, frozenset, sequence or tuple-       *)
(* variadic given a sequence-like input of n elements, every one of the n  *)
(* elements is validated against the element sub-field, at loc + (i,), and *)
(* when k >= 1 elements fail the errors returned are exactly one entry per *)
(* failing element, each located at loc + (i,), in index order.            *)
(***************************************************************************)
C1_AllElementsReported ==
  SequenceCase =>
    /\ \A i \in DOMAIN PreValue.value.items :
         Len(CallsOf(ret.trace, "_validate_singleton", At(i))) = 1
    /\ Failing # <<>> =>
         /\ ret.errors.t = "list"
         /\ Len(ret.errors.items) = Len(Failing)
         /\ \A j \in DOMAIN Failing :
              /\ ret.errors.items[j] = ElementResults[Failing[j]].errors
              /\ LocatedAt(ret.errors.items[j], At(Failing[j]))

\* three elements of which the first and the last fail: two errors, and the
\* second element was validated all the same
C1_Witness ==
  /\ SequenceCase
  /\ Len(input.items) = 3
  /\ Failing = <<1, 3>>
  /\ Len(ret.errors.items) = 2
  /\ Len(CallsOf(ret.trace, "_validate_singleton", At(2))) = 1

(***************************************************************************)
(* C2: for a singleton field with union sub-fields, the sub-fields are     *)
(* tried in declared order through their full validate; the value of the   *)
(* first one that succeeds is returned with no errors and no later         *)
(* sub-field is consulted; when every sub-field fails, the input is        *)
(* returned with the errors of all sub-fields, one per sub-field in        *)
(* declared order.                                                         *)
(***************************************************************************)
\* a singleton field with sub-fields reached _validate_singleton, and nothing
\* came after it
UnionCase ==
  /\ field.shape = SHAPE_SINGLETON
  /\ field.sub_fields # <<>>
  /\ field.post_validators = <<>>
  /\ ShapeEntered

\* what each sub-field makes of the value, taken one by one
SubResults == [k \in DOMAIN field.sub_fields |-> Validate(field.sub_fields[k], PreValue.value, Loc)]

\* the sub-fields that accept the value
Accepting == {k \in DOMAIN SubResults : ~Truthy(SubResults[k].errors)}

FirstAccepting == CHOOSE k \in Accepting : \A j \in Accepting : k <= j

\* the names of the sub-fields whose validate was called, in order
Consulted == [k \in DOMAIN SubValidates(ret.trace, Loc) |-> SubValidates(ret.trace, Loc)[k].name]

C2_UnionFirstSuccess ==
  UnionCase =>
    IF Accepting # {}
    THEN /\ ret.value = SubResults[FirstAccepting].value
         /\ ret.errors = NoErr
         /\ Consulted = [k \in 1..FirstAccepting |-> field.sub_fields[k].name]
    ELSE /\ ret.value = PreValue.value
         /\ ret.errors.t = "list"
         /\ ret.errors.items = [k \in DOMAIN field.sub_fields |-> SubResults[k].errors]
         /\ Consulted = [k \in DOMAIN field.sub_fields |-> field.sub_fields[k].name]

\* the first of three sub-fields rejects, the second accepts and the third is
\* never consulted
C2_Witness ==
  /\ UnionCase
  /\ Len(field.sub_fields) = 3
  /\ Accepting = {2, 3}
  /\ Len(Consulted) = 2
  /\ ret.errors = NoErr

(***************************************************************************)
(* C3, as the code has it: for a mapping-shaped field given a mapping,     *)
(* the key of every entry is validated against key_field at                *)
(* loc + ('__key__',); the value of an entry is validated against the      *)
(* element sub-field, at loc + (key,), exactly when its key was accepted;  *)
(* and the errors returned are, entry by entry in order, the key's errors  *)
(* of an entry whose key failed and the value's errors of an entry whose   *)
(* key was accepted and whose value failed.                                *)
(***************************************************************************)
MappingCase ==
  /\ field.shape = SHAPE_MAPPING
  /\ ShapeEntered
  /\ PreValue.value.kind = "dict"

Entries == PreValue.value.items

KeyLoc == Append(Loc, StrV(<<"__key__">>))

\* what key_field makes of each key, and the element sub-field of each value,
\* taken one by one
KeyResults == [i \in DOMAIN Entries |-> Validate(field.key_field[1], Entries[i].items[1], KeyLoc)]

ValueResults ==
  [i \in DOMAIN Entries |->
     ValidateSingleton(field, Entries[i].items[2], Append(Loc, Entries[i].items[1]))]

KeyFails(i) == Truthy(KeyResults[i].errors)

ValueFails(i) == Truthy(ValueResults[i].errors)

\* the entries that give an error, in order, and the error each gives
FailingEntries ==
  SelectSeq([i \in DOMAIN Entries |-> i], LAMBDA i : KeyFails(i) \/ ValueFails(i))

EntryError(i) == IF KeyFails(i) THEN KeyResults[i].errors ELSE ValueResults[i].errors

C3_EntryErrors ==
  MappingCase =>
    /\ Len(SubValidates(ret.trace, KeyLoc)) = Len(Entries)
    /\ \A i \in DOMAIN Entries :
         Len(CallsOf(ret.trace, "_validate_singleton", Append(Loc, Entries[i].items[1])))
           = IF KeyFails(i) THEN 0 ELSE 1
    /\ FailingEntries # <<>> =>
         /\ ret.errors.t = "list"
         /\ ret.errors.items = [j \in DOMAIN FailingEntries |-> EntryError(FailingEntries[j])]
         /\ \A i \in DOMAIN Entries :
              /\ KeyFails(i) => LocatedAt(KeyResults[i].errors, KeyLoc)
              /\ ValueFails(i) => LocatedAt(ValueResults[i].errors, Append(Loc, Entries[i].items[1]))

\* two entries: the key of the first fails, and its value, which would fail too,
\* is not validated; the second entry is validated and its value fails
C3_Witness ==
  /\ MappingCase
  /\ Len(Entries) = 2
  /\ KeyFails(1) /\ ValueFails(1)
  /\ ~KeyFails(2) /\ ValueFails(2)
  /\ ret.errors.items = <<KeyResults[1].errors, ValueResults[2].errors>>

\* C3, as the claim has it: every key failure and every value failure of every
\* entry is among the errors returned, and no value is left unvalidated
C3_AllFailuresReported ==
  MappingCase =>
    \A i \in DOMAIN Entries :
      /\ KeyFails(i) => \E j \in DOMAIN ret.errors.items : ret.errors.items[j] = KeyResults[i].errors
      /\ ValueFails(i) => \E j \in DOMAIN ret.errors.items : ret.errors.items[j] = ValueResults[i].errors
      /\ Len(CallsOf(ret.trace, "_validate_singleton", Append(Loc, Entries[i].items[1]))) = 1

(***************************************************************************)
(* C4: Field.validate runs pre_validators, then the null check, then the   *)
(* method of the shape, then post_validators.  When a pre-validator raises *)
(* ValueError, TypeError or AssertionError the call returns one error      *)
(* wrapped at the current location, and neither the method of the shape    *)
(* nor a post-validator runs.  The post_validators run only when the       *)
(* method of the shape gave no errors, and a failing post-validator is     *)
(* wrapped at the current location.                                        *)
(***************************************************************************)
\* the i-th event of the call is the field's own, of kind ev
Own(i, ev) == ret.trace[i].ev = ev /\ ret.trace[i].name = field.name

\* what the method of the field's shape makes of the value
ShapeResult == ValidateShape(field, PreValue.value, Loc)

C4_PhaseOrder ==
  phase = "validated" =>
    /\ \A i, j \in DOMAIN ret.trace :
         /\ Own(i, "pre") /\ ret.trace[j].ev \in {"shape", "validator", "post"} => i < j
         /\ Own(i, "post") /\ ret.trace[j].ev \in {"validate", "pre", "shape", "validator"} => j < i
    /\ PreValue.raised = "" /\ Truthy(PreValue.errors) =>
         /\ ret.raised = ""
         /\ ret.errors.t = "wrapper"
         /\ ret.errors.loc = Loc
         /\ \A j \in DOMAIN ret.trace : ret.trace[j].ev \notin {"shape", "validator", "post"}
    /\ PreValue.raised = "" /\ ~Truthy(PreValue.errors) /\ PreValue.value = NoneV =>
         \A j \in DOMAIN ret.trace : ret.trace[j].ev \notin {"shape", "validator"}
    /\ ShapeEntered =>
         IF Truthy(ShapeResult.errors)
         THEN /\ ret.errors = ShapeResult.errors
              /\ \A j \in DOMAIN ret.trace : ret.trace[j].ev # "post"
         ELSE /\ field.post_validators # <<>> => \E j \in DOMAIN ret.trace : Own(j, "post")
              /\ Truthy(ret.errors) => ret.errors.t = "wrapper" /\ ret.errors.loc = Loc

\* all the phases in one call: a pre-validator, the method of the shape, and
\* two post-validators of which the second fails
C4_Witness ==
  /\ ShapeEntered
  /\ \E i \in DOMAIN ret.trace : Own(i, "pre")
  /\ \E i \in DOMAIN ret.trace : Own(i, "shape")
  /\ Len(SelectSeq(ret.trace, LAMBDA e : e.ev = "post")) = 2
  /\ ret.errors.t = "wrapper"
  /\ ret.errors.exc = "AssertionError"
  /\ ret.errors.loc = Loc

(***************************************************************************)
(* C5: a field constructed from Optional[T], whatever T, has allow_none    *)
(* true and required false, and with no validators attached its            *)
(* validate(None) returns (None, None); a field with allow_none false      *)
(* answers validate(None) with a NoneIsNotAllowedError at the current      *)
(* location and runs no shape-specific method.                             *)
(***************************************************************************)
\* Optional[T]: a Union with NoneType among its arguments
IsOptional(td) == td.origin = "Union" /\ \E k \in DOMAIN td.args : td.args[k] = NoneTypeT

C5_NoneHandling ==
  /\ phase # "new" /\ field.error = "" /\ IsOptional(config[1]) =>
       field.allow_none /\ ~field.required
  /\ phase = "validated" /\ input = NoneV /\ config[2] = <<>> =>
       /\ IsOptional(config[1]) => ret.value = NoneV /\ ret.errors = NoErr /\ ret.raised = ""
       /\ ~field.allow_none =>
            /\ ret.errors = ErrorWrapper("NoneIsNotAllowedError", "TypeError", <<>>, Loc)
            /\ \A j \in DOMAIN ret.trace : ret.trace[j].ev # "shape"

(***************************************************************************)
(* C6: a tuple-fixed field with k positional sub-fields rejects an input   *)
(* that is not sequence-like, or whose length differs from k, with a       *)
(* single error at the current location before any positional sub-field is *)
(* validated; the length error carries actual_length = len(input) and      *)
(* expected_length = k.  For an input of length k, position i is validated *)
(* against sub-field i at loc + (i,), and all failing positions are        *)
(* reported.  (The inputs are those len() accepts: the call on a generator *)
(* ends in the TypeError of len().)                                        *)
(***************************************************************************)
TupleCase == field.shape = SHAPE_TUPLE /\ ShapeEntered

\* what the positional sub-fields make of the elements, taken one by one
PositionResults ==
  [i \in DOMAIN field.sub_fields |->
     Validate(field.sub_fields[i], PreValue.value.items[i], At(i))]

FailingPositions ==
  SelectSeq([i \in DOMAIN field.sub_fields |-> i], LAMBDA i : Truthy(PositionResults[i].errors))

\* no sub-field was asked to validate anything
NoSubValidate == \A j \in DOMAIN ret.trace : ret.trace[j].ev = "validate" => ret.trace[j].name = field.name

C6_TupleFixed ==
  TupleCase =>
    IF ~sequence_like(PreValue.value)
    THEN /\ ret.errors = ErrorWrapper("TupleError", "TypeError", <<>>, Loc)
         /\ NoSubValidate
    ELSE IF PyLen(PreValue.value) # Len(field.sub_fields)
    THEN /\ ret.errors = ErrorWrapper("TupleLengthError", "ValueError",
                                      <<PyLen(PreValue.value), Len(field.sub_fields)>>, Loc)
         /\ NoSubValidate
    ELSE /\ \A i \in DOMAIN field.sub_fields :
              /\ Len(SubValidates(ret.trace, At(i))) = 1
              /\ SubValidates(ret.trace, At(i))[1].name = field.sub_fields[i].name
         /\ FailingPositions # <<>> =>
              /\ ret.errors.t = "list"
              /\ ret.errors.items =
                   [j \in DOMAIN FailingPositions |-> PositionResults[FailingPositions[j]].errors]
              /\ \A j \in DOMAIN FailingPositions :
                   LocatedAt(ret.errors.items[j], At(FailingPositions[j]))

\* two elements against three positions
C6_Witness ==
  /\ TupleCase
  /\ input.kind = "tuple"
  /\ Len(input.items) = 2
  /\ Len(field.sub_fields) = 3
  /\ ret.errors.exc = "TupleLengthError"
  /\ ret.errors.args = <<2, 3>>
  /\ NoSubValidate

(***************************************************************************)
(* C7: on full success a container field reassembles the validated         *)
(* elements into the kind of its shape: a list for the list shape, a set   *)
(* for set, a frozenset for frozenset, a tuple for tuple-variadic; for the *)
(* sequence shape the output has the concrete kind of the input, whichever *)
(* of list, tuple, set, frozenset or generator that is (a generator stays  *)
(* a lazy iterator).                                                       *)
(***************************************************************************)
\* a field of a sequence shape accepted every element of its input
SequenceSuccess == SequenceCase /\ ~Truthy(ret.errors)

LazyKinds == {"generator", "list_iterator"}

C7_ReassembledKind ==
  SequenceSuccess =>
    CASE field.shape = SHAPE_LIST -> ret.value.kind = "list"
      [] field.shape = SHAPE_SET -> ret.value.kind = "set"
      [] field.shape = SHAPE_FROZENSET -> ret.value.kind = "frozenset"
      [] field.shape = SHAPE_TUPLE_ELLIPSIS -> ret.value.kind = "tuple"
      [] OTHER -> IF PreValue.value.kind = "generator"
                  THEN ret.value.kind \in LazyKinds
                  ELSE ret.value.kind = PreValue.value.kind

(***************************************************************************)
(* C8, as the code has it: a field without pre- or post-validators, given  *)
(* an empty container, returns no errors and an empty container of its     *)
(* shape's kind when its shape is list, set, frozenset, tuple-variadic,    *)
(* sequence or mapping: a list, a set, a frozenset, a tuple, a dict; for   *)
(* the sequence shape a tuple for a tuple, a set for a set, an iterator    *)
(* for a generator, and a list for a list or a frozenset.  A tuple-fixed   *)
(* field of k >= 1 positions rejects the empty input with a                *)
(* TupleLengthError of actual_length 0 and expected_length k.              *)
(***************************************************************************)
\* an empty container is given to a container field that has no pre- or
\* post-validators: a dict for a mapping, an object with a length for
\* tuple-fixed, any sequence-like object for the others
EmptyCase ==
  /\ phase = "validated"
  /\ field.shape # SHAPE_SINGLETON
  /\ field.pre_validators = <<>>
  /\ field.post_validators = <<>>
  /\ input.items = <<>>
  /\ CASE field.shape = SHAPE_MAPPING -> input.kind = "dict"
       [] field.shape = SHAPE_TUPLE -> input.kind \in {"list", "tuple", "set", "frozenset"}
       [] OTHER -> sequence_like(input)

\* the kind of the empty container each shape gives
EmptyKind ==
  CASE field.shape = SHAPE_LIST -> "list"
    [] field.shape = SHAPE_SET -> "set"
    [] field.shape = SHAPE_FROZENSET -> "frozenset"
    [] field.shape \in {SHAPE_TUPLE, SHAPE_TUPLE_ELLIPSIS} -> "tuple"
    [] field.shape = SHAPE_MAPPING -> "dict"
    [] OTHER -> CASE input.kind \in {"tuple", "set"} -> input.kind
                  [] input.kind = "generator" -> "list_iterator"
                  [] OTHER -> "list"

ValidatesToEmpty(kinds) ==
  /\ ret.raised = ""
  /\ ret.errors = NoErr
  /\ ret.value.items = <<>>
  /\ ret.value.kind \in kinds

ContainerCase ==
  /\ phase = "validated"
  /\ field.shape # SHAPE_SINGLETON
  /\ ShapeEntered
  /\ PreValue.value = input
  /\ input.kind \in {"list", "tuple", "set", "frozenset", "generator", "dict"}

\* the two values are one object
SameObject(a, b) == a.kind = b.kind /\ a.id = b.id

C9_InputPreserved ==
  ContainerCase =>
    /\ input.kind # "generator" => ret.vin = input
    /\ input.kind = "generator" /\ field.shape \in SequenceShapes => ret.vin = Consumed(input)
    /\ ~Truthy(ret.errors) =>
         /\ ret.value.id # "input"
         /\ SameObject(ret.value, input) =>
              ret.value.items = <<>> /\ ret.value.kind \in {"tuple", "frozenset"}
    /\ Truthy(ShapeResult.errors) => ret.value = ret.vin

\* a generator of which an element fails comes back exhausted
C9_Witness ==
  /\ ContainerCase
  /\ input.kind = "generator"
  /\ Len(input.items) = 2
  /\ Truthy(ret.errors)
  /\ ret.value.kind = "generator"
  /\ ret.value.items = <<>>

\* C9, as the claim has it: the input is never modified, a success returns an
\* object that is not the input, and a failure returns the input with the
\* elements it had before the call
C9_NeverModified ==
  ContainerCase =>
    /\ ret.vin = input
    /\ ~Truthy(ret.errors) => ~SameObject(ret.value, input)
    /\ Truthy(ShapeResult.errors) => ret.value = input

(***************************************************************************)
(* C10: validating again the output of a successful validation of a        *)
(* constrained str or a constrained int, against the same type, gives the  *)
(* same value and no errors, for every configuration of the type and every *)
(* input that validates.                                                   *)
(***************************************************************************)
\* the output of a field of a constrained str or int was validated again
RevalidatedConstrained ==
  /\ phase = "revalidated"
  /\ config[1].name \in {"ConstrainedStr", "ConstrainedInt"}

C10_Idempotent ==
  RevalidatedConstrained =>
    /\ again.raised = ""
    /\ again.errors = NoErr
    /\ again.value = ret.value

(***************************************************************************)
(* A second specification: a Field of a type of types.py that brings its   *)
(* own validators is constructed and validates the inputs of that type.    *)
(***************************************************************************)
\* the free last digits of a card number: the check digit and those before it
MaxTail == 2

\* the leading digits _get_brand tells apart, and their neighbours
CardPrefixes == {<<"4">>, <<"5", "0">>, <<"5", "1">>, <<"5", "5">>, <<"5", "6">>,
                 <<"3", "4">>, <<"3", "7">>, <<"6", "0">>}

\* the lengths min_length, max_length and validate_length_for_brand tell apart
CardLengths == {11, 12, 15, 16, 19, 20}

\* card numbers: a prefix, a run of zeros, and every tail
CardNumbers ==
  {p \o [k \in 1..(n - Len(p) - MaxTail) |-> "0"] \o tail :
     p \in CardPrefixes, n \in CardLengths, tail \in [1..MaxTail -> Range(Digits)]}

\* what is given to the field: card numbers, bare or between blanks, a text that
\* is not a number, and an object that is no str
CardInputs ==
  {StrV(c) : c \in CardNumbers}
  \cup {StrV(<<" ">> \o c \o <<" ">>) : c \in {x \in CardNumbers : Len(x) = 16 /\ x[1] = "4"}}
  \cup {StrV([k \in 1..16 |-> "a"]), StrV(<<>>), InputObj("list", <<>>)}

\* the most digits of a Decimal, and the largest magnitude of its exponent
MaxDigits == 3

MaxExp == 3

\* Decimals: finite ones of every digit count and exponent, Infinity and NaN
Decimals ==
  {DecimalV(d, e) : d \in SeqsUpTo({1, 3, 4}, MaxDigits) \ {<<>>}, e \in -MaxExp..MaxExp}
  \cup {NotFiniteV(<<0>>, "F"), NotFiniteV(<<>>, "n"), NotFiniteV(<<>>, "N")}

\* what is given to a condecimal field: Decimals, an int and a str
DecimalInputs == Decimals \cup {IntV(1), StrV(<<"a">>)}

CondecimalTypes ==
  {condecimal(m, p) : m \in {NoneInt} \cup 1..MaxDigits, p \in {NoneInt} \cup 0..(MaxDigits - 1)}

TypesWithValidators == {PaymentCardNumberT} \cup CondecimalTypes

InputsOf(td) == IF td.name = "PaymentCardNumber" THEN CardInputs ELSE DecimalInputs

\* Field(name=..., type_=...) of such a type
ConstructTyped ==
  /\ phase = "new"
  /\ \E td \in TypesWithValidators :
       /\ config' = <<td, <<>>, TRUE>>
       /\ field' = NewField(FieldName, td, <<>>, NoneV, TRUE)
  /\ phase' = "ready"
  /\ UNCHANGED <<input, ret, again, runtime>>

\* field.validate(v, values, loc=...)
CallTyped ==
  /\ phase = "ready"
  /\ \E v \in InputsOf(config[1]) :
       /\ input' = v
       /\ ret' = Validate(field, v, Loc)
  /\ phase' = "validated"
  /\ UNCHANGED <<config, field, again, runtime>>

NextTyped == ConstructTyped \/ CallTyped

SpecTyped == Init /\ [][NextTyped]_vars

\* the validators of the field that were called, in order
Called == [k \in DOMAIN ret.trace |-> ret.trace[k].fn]

\* the call reached validator fn
Reached(fn) == phase = "validated" /\ \E k \in DOMAIN ret.trace : ret.trace[k].fn = fn

\* the call got past validator fn: a later one was called, or fn was the last
\* and the call returned no error
Passed(fn) ==
  /\ Reached(fn)
  /\ ret.raised = ""
  /\ ~(Truthy(ret.errors) /\ ret.trace[Len(ret.trace)].fn = fn)

(***************************************************************************)
(* C11: validate_luhn_check_digit accepts an all-digit card number exactly *)
(* when it passes the Luhn checksum: from the digit left of the check      *)
(* digit leftwards every second digit is doubled, a doubled value above 9  *)
(* is replaced by the sum of its digits, and the total with the check      *)
(* digit is 0 mod 10; any other number gets the Luhn error.                *)
(***************************************************************************)
RECURSIVE LuhnTotal(_, _)
\* the Luhn total of the digits s[1..n], the check digit being the last of s
LuhnTotal(s, n) ==
  IF n = 0 THEN 0
  ELSE LET d == DigitOf(s[n])
           doubled == (Len(s) - n) % 2 = 1
       IN LuhnTotal(s, n - 1)
          + (IF ~doubled THEN d ELSE IF 2 * d > 9 THEN ((2 * d) \div 10) + ((2 * d) % 10) ELSE 2 * d)

LuhnValid(s) == LuhnTotal(s, Len(s)) % 10 = 0

C11_LuhnExact ==
  Reached("validate_luhn_check_digit") =>
    /\ Passed("validate_luhn_check_digit") <=> LuhnValid(ret.value.s)
    /\ ~Passed("validate_luhn_check_digit") => ret.errors.exc = "LuhnValidationError"

(***************************************************************************)
(* C12: a card number is classified by its leading digits, the first match *)
(* winning ('4' visa; 51..55 mastercard; 34 or 37 amex; else other), and   *)
(* validate_length_for_brand accepts visa and mastercard numbers only with *)
(* 16 digits, amex numbers only with 15, other brands with any length; a   *)
(* violation raises the brand-length error with the brand and the length.  *)
(***************************************************************************)
\* the brand the claim gives to the digits s
ClaimedBrand(s) ==
  IF s[1] = "4" THEN "visa"
  ELSE IF s[1] = "5" /\ s[2] \in {"1", "2", "3", "4", "5"} THEN "mastercard"
  ELSE IF s[1] = "3" /\ s[2] \in {"4", "7"} THEN "amex"
  ELSE "other"

\* the length the claim requires of a brand, NoneInt for none
ClaimedLength(b) ==
  IF b \in {"visa", "mastercard"} THEN 16 ELSE IF b = "amex" THEN 15 ELSE NoneInt

C12_BrandLength ==
  Reached("validate_length_for_brand") =>
    /\ brand(ret.value) = ClaimedBrand(ret.value.s)
    /\ Passed("validate_length_for_brand") <=>
         \/ ClaimedLength(brand(ret.value)) = NoneInt
         \/ Len(ret.value.s) = ClaimedLength(brand(ret.value))
    /\ ~Passed("validate_length_for_brand") =>
         /\ ret.errors.exc = "InvalidLengthForBrand"
         /\ ret.errors.args = <<brand(ret.value), ClaimedLength(brand(ret.value))>>

(***************************************************************************)
(* C13: ConstrainedDecimal.validate computes digits and decimals from the  *)
(* digit tuple and the exponent and checks, in this order and each with    *)
(* its own error, digits <= max_digits, decimals <= decimal_places, and,   *)
(* when both are set, whole digits <= max_digits - decimal_places; a value *)
(* that passes is returned unchanged.                                      *)
(***************************************************************************)
\* a condecimal field was given a finite Decimal
DecimalCase ==
  /\ phase = "validated"
  /\ config[1].name = "ConstrainedDecimal"
  /\ input.kind = "Decimal"
  /\ input.id = ""

max_digits == config[1].cfg.max_digits

decimal_places == config[1].cfg.decimal_places

\* the digit count: trailing zeros of a non-negative exponent count, and a value
\* entirely below one has as many digits as decimal places
DigitCount ==
  IF input.i >= 0 THEN Len(input.items) + input.i
  ELSE IF Len(input.items) >= -input.i THEN Len(input.items) ELSE -input.i

DecimalCount == IF input.i >= 0 THEN 0 ELSE -input.i

WholeCount == DigitCount - DecimalCount

TooManyDigits == max_digits # NoneInt /\ DigitCount > max_digits

TooManyPlaces == decimal_places # NoneInt /\ DecimalCount > decimal_places

TooManyWhole ==
  max_digits # NoneInt /\ decimal_places # NoneInt /\ WholeCount > max_digits - decimal_places

\* the call returned error exc with the number n
FailsWith(exc, n) == ret.raised = "" /\ ret.errors.exc = exc /\ ret.errors.args = <<n>>

C13_DecimalDigits ==
  DecimalCase =>
    /\ TooManyDigits => FailsWith("DecimalMaxDigitsError", max_digits)
    /\ ~TooManyDigits /\ TooManyPlaces => FailsWith("DecimalMaxPlacesError", decimal_places)
    /\ ~TooManyDigits /\ ~TooManyPlaces /\ TooManyWhole =>
         FailsWith("DecimalWholeDigitsError", max_digits - decimal_places)
    /\ ~TooManyDigits /\ ~TooManyPlaces /\ ~TooManyWhole =>
         ret.raised = "" /\ ret.errors = NoErr /\ ret.value = input

\* 31.4 with max_digits=3, decimal_places=2: two whole digits where one is allowed
C13_Witness ==
  /\ DecimalCase
  /\ input = DecimalV(<<3, 1, 4>>, -1)
  /\ max_digits = 3
  /\ decimal_places = 2
  /\ FailsWith("DecimalWholeDigitsError", 1)

\* C13, as the claim has it: a finite value with more whole digits than
\* max_digits - decimal_places (decimal_places counting as 0 when it is not
\* set, as for 3.14 with max_digits=2) fails with the whole-digits error
C13_WholeDigitsError ==
  (DecimalCase /\ max_digits # NoneInt
     /\ WholeCount > max_digits - (IF decimal_places = NoneInt THEN 0 ELSE decimal_places)) =>
    ret.errors.exc = "DecimalWholeDigitsError"

(***************************************************************************)
(* C14: defining a constrained number type that has both gt and ge, or     *)
(* both lt and le, fails at once with a configuration error; no field of   *)
(* such a type exists when validate is called, and no validate call gives  *)
(* this configuration error.                                               *)
(***************************************************************************)
\* the class attributes of the declared type hold conflicting bounds
ConflictingBounds ==
  \/ config[1].cfg.gt # NoneInt /\ config[1].cfg.ge # NoneInt
  \/ config[1].cfg.lt # NoneInt /\ config[1].cfg.le # NoneInt

C14_ConflictingBounds ==
  /\ (phase # "new" /\ ConflictingBounds) =>
       /\ phase = "config_error"
       /\ field.error = "ConfigError"
       /\ ret = NoCall
  /\ phase \in {"validated", "revalidated"} =>
       /\ ~ConflictingBounds
       /\ ret.raised # "ConfigError"
       /\ again.raised # "ConfigError"
       /\ \A k \in DOMAIN Flatten(ret.errors) : Flatten(ret.errors)[k].exc # "ConfigError"
  /\ (phase = "config_error" /\ config[1].name = "ConstrainedInt") => ConflictingBounds

\* conint(lt=1, le=2) is refused when it is defined
C14_Witness ==
  /\ phase = "config_error"
  /\ config[1].name = "ConstrainedInt"
  /\ config[1].cfg.gt = NoneInt
  /\ config[1].cfg.ge = NoneInt
  /\ config[1].cfg.lt = 1
  /\ config[1].cfg.le = 2
  /\ field.error = "ConfigError"

(***************************************************************************)
(* C15: a validator that raises ValueError, TypeError or AssertionError    *)
(* gives a validation error wrapped at the location of its call; one that  *)
(* raises another kind of exception, at any depth, ends the outermost      *)
(* validate call with that exception: nothing is called after it, and no   *)
(* value and no errors are returned.                                       *)
(***************************************************************************)
\* the exception each raising validator of a caller raises
RaisedBy(fn) ==
  CASE fn = "user_value_error" -> "ValueError"
    [] fn = "user_type_error" -> "TypeError"
    [] fn = "user_assertion_error" -> "AssertionError"
    [] fn = "user_key_error" -> "KeyError"
    [] OTHER -> ""

\* the call was made and the k-th thing it did was to call a validator that raises
RaisingCall(k) ==
  /\ phase = "validated"
  /\ k \in DOMAIN ret.trace
  /\ RaisedBy(ret.trace[k].fn) # ""

C15_ExceptionKinds ==
  /\ \A k \in DOMAIN ret.trace :
       (RaisingCall(k) /\ RaisedBy(ret.trace[k].fn) # "KeyError") =>
         /\ ret.raised = ""
         /\ \E j \in DOMAIN Flatten(ret.errors) :
              /\ Flatten(ret.errors)[j].exc = RaisedBy(ret.trace[k].fn)
              /\ Flatten(ret.errors)[j].loc = ret.trace[k].loc
  /\ \A k \in DOMAIN ret.trace :
       (RaisingCall(k) /\ RaisedBy(ret.trace[k].fn) = "KeyError") =>
         /\ k = Len(ret.trace)
         /\ ret.raised = "KeyError"
         /\ ret.value = NoneV
         /\ ret.errors = NoErr
  /\ (phase = "validated" /\ ret.raised = "KeyError") =>
       /\ ret.trace # <<>>
       /\ RaisedBy(ret.trace[Len(ret.trace)].fn) = "KeyError"

\* the validator of the first of two elements of a list raises KeyError: the
\* second element is never validated
C15_Witness ==
  /\ phase = "validated"
  /\ field.shape = SHAPE_LIST
  /\ Len(input.items) = 2
  /\ ret.raised = "KeyError"
  /\ ret.trace[Len(ret.trace)].fn = "user_key_error"
  /\ ret.trace[Len(ret.trace)].loc = Append(Loc, IntV(0))

(***************************************************************************)
(* A third specification: several validate calls run at once on one Field  *)
(* of a sequence shape with no pre-validators.  Each call has its own      *)
(* argument (input), its own frame of locals (again) and its own position  *)
(* (phase); a step of a call is its entry, one turn of the loop of         *)
(* _validate_sequence_like, or its return (ret).                           *)
(***************************************************************************)
Threads == {"t1", "t2"}

\* the longest argument of a concurrent call
MaxCallLen == 2

ConcurrentConfigs ==
  {Generic(origin, <<IntT>>) : origin \in {"list", "set", "Sequence"}}
  \X {<<>>, <<ItemV("user_value_error")>>, <<ItemV("user_key_error")>>, <<PostV("user_pass")>>}
  \X {TRUE}

\* each call is given an object of its own
ConcurrentInputs ==
  {Obj(kind, items, "input") : kind \in {"list", "tuple"},
                               items \in SeqsUpTo(Elems, MaxCallLen) \ {<<>>}}
  \cup {IntV(1)}

\* the locals of _validate_sequence_like: i of enumerate(v), result, errors
NoFrame == [i |-> 0, lp |-> LoopDone]

\* a faulty variant of Frame: result and errors are kept in one place for all
\* the calls, as attributes of the Field would be
FrameShared(t) == again["t1"]

\* the frame of call t
Frame(t) == again[t]

\* one turn of the loop on the locals: r is what the element's validation returned
\*     if ee: errors.append(ee)
\*     else: result.append(r)
LoopAppend(lp, r) ==
  [result |-> IF r.raised = "" /\ ~Truthy(r.errors) THEN Append(lp.result, r.value) ELSE lp.result,
   errors |-> IF r.raised = "" /\ Truthy(r.errors) THEN Append(lp.errors, r.errors) ELSE lp.errors,
   raised |-> r.raised,
   trace |-> lp.trace \o r.trace]

InitConcurrent ==
  /\ config \in ConcurrentConfigs
  /\ field = NewField(FieldName, config[1], config[2], NoneV, config[3])
  /\ input = [t \in Threads |-> NoneV]
  /\ ret = [t \in Threads |-> NoCall]
  /\ again = [t \in Threads |-> NoFrame]
  /\ phase = [t \in Threads |-> "idle"]
  /\ runtime \in [shareEmptyFrozenset : BOOLEAN]

\* field.validate(v, ...) is entered: no pre-validators, v is not None, and
\* _validate_sequence_like starts with result = [] and errors = []
Enter(t) ==
  /\ phase[t] = "idle"
  /\ \E v \in ConcurrentInputs : input' = [input EXCEPT ![t] = v]
  /\ again' = [again EXCEPT ![t] = NoFrame]
  /\ phase' = [phase EXCEPT ![t] = IF sequence_like(input'[t]) THEN "loop" ELSE "return"]
  /\ UNCHANGED <<config, field, ret, runtime>>

\* r, ee = self._validate_singleton(v_, values, v_loc, cls), and the appends
Turn(t) ==
  /\ phase[t] = "loop"
  /\ Frame(t).lp.raised = ""
  /\ Frame(t).i < Len(input[t].items)
  /\ again' = [again EXCEPT ![t] =
                 [i |-> Frame(t).i + 1,
                  lp |-> LoopAppend(Frame(t).lp,
                                    ValidateSingleton(field, input[t].items[Frame(t).i + 1],
                                                      Append(Loc, IntV(Frame(t).i))))]]
  /\ UNCHANGED <<config, field, input, ret, phase, runtime>>

\* the loop is over, or an exception left it: _validate_sequence_like returns,
\* and validate runs the post-validators
Return(t) ==
  /\ \/ phase[t] = "return"
     \/ phase[t] = "loop" /\ (Frame(t).lp.raised # "" \/ Frame(t).i >= Len(input[t].items))
  /\ ret' = [ret EXCEPT ![t] =
               ValidateSame(IF phase[t] = "return"
                            THEN ValidateSequenceLike(field, input[t], Loc)
                            ELSE SequenceReturn(Frame(t).lp, field, input[t],
                                                <<Ev("shape", field, "_validate_sequence_like", Loc)>>),
                            field, Loc, <<Ev("validate", field, "", Loc)>>)]
  /\ phase' = [phase EXCEPT ![t] = "done"]
  /\ UNCHANGED <<config, field, input, again, runtime>>

NextConcurrent == \E t \in Threads : Enter(t) \/ Turn(t) \/ Return(t)

SpecConcurrent == InitConcurrent /\ [][NextConcurrent]_vars

(***************************************************************************)
(* C16: a validate call writes no attribute of the Field, of a sub-field   *)
(* or of a key field, so that, however concurrent calls on one Field are   *)
(* interleaved, each returns what it returns when it runs alone.           *)
(***************************************************************************)
C16_ConcurrentCalls ==
  /\ field = NewField(FieldName, config[1], config[2], NoneV, config[3])
  /\ \A t \in Threads : phase[t] = "done" => ret[t] = Validate(field, input[t], Loc)

\* a call returned a list after the other call had done one turn of its loop
C16_Witness ==
  /\ phase["t2"] = "done"
  /\ phase["t1"] = "loop"
  /\ again["t1"].i = 1
  /\ Len(input["t1"].items) = 2
  /\ Len(input["t2"].items) = 2
  /\ input["t1"] # input["t2"]
  /\ ret["t2"].raised = ""
  /\ ret["t2"].errors = NoErr
  /\ ret["t2"].value.kind = "list"

(***************************************************************************)
(* C17: in every constructed Field a shape other than singleton comes with *)
(* sub-fields: exactly one for list, set, frozenset, sequence, mapping and *)
(* tuple-variadic, one per declared position for tuple-fixed; and a Field  *)
(* with sub-fields has no validators of its own.  The same holds of its    *)
(* sub-fields and of its key field.                                        *)
(***************************************************************************)
RECURSIVE WellFormed(_)
WellFormed(f) ==
  /\ f.shape # SHAPE_SINGLETON => Len(f.sub_fields) >= 1
  /\ f.shape \in {SHAPE_LIST, SHAPE_SET, SHAPE_FROZENSET, SHAPE_SEQUENCE, SHAPE_MAPPING,
                  SHAPE_TUPLE_ELLIPSIS} => Len(f.sub_fields) = 1
  /\ f.shape = SHAPE_TUPLE => Len(f.sub_fields) = Len(f.type_.args)
  /\ f.sub_fields # <<>> => f.validators = <<>>
  /\ \A k \in DOMAIN f.sub_fields : WellFormed(f.sub_fields[k])
  /\ \A k \in DOMAIN f.key_field : WellFormed(f.key_field[k])

C17_SubFields ==
  (phase \notin {"new", "config_error"}) =>
    /\ field.error = ""
    /\ WellFormed(field)
    /\ field.shape = SHAPE_TUPLE => Len(field.sub_fields) = Len(config[1].args)

\* Tuple[int, str]: two sub-fields and no validators of its own
C17_Witness ==
  /\ phase = "ready"
  /\ config[1] = Generic("tuple", <<IntT, StrT>>)
  /\ field.shape = SHAPE_TUPLE
  /\ Len(field.sub_fields) = 2
  /\ field.sub_fields[2].validators # <<>>
  /\ field.validators = <<>>

(***************************************************************************)
(* C18: the validators a bounded list type brings are hoisted as           *)
(* always-run pre-validators of the list field itself and are not attached *)
(* to its element sub-field; after construction validate_always is true    *)
(* whenever a validator attached to the field is marked always-run, the    *)
(* hoisted ones included.                                                  *)
(***************************************************************************)
\* a field was constructed
Constructed == phase \notin {"new", "config_error"}

\* the functions of a chain of validators
FnsOf(chain) == {chain[k].fn : k \in DOMAIN chain}

\* the validators attached to the field that are marked always-run
AlwaysRun == {k \in DOMAIN field.class_validators : field.class_validators[k].always}

C18_HoistedValidators ==
  /\ (Constructed /\ config[1].name = "ConstrainedList") =>
       /\ "list_length_validator" \in FnsOf(field.pre_validators)
       /\ \E k \in AlwaysRun : /\ field.class_validators[k].func.fn = "list_length_validator"
                               /\ field.class_validators[k].pre
                               /\ ~field.class_validators[k].each_item
       /\ "list_length_validator" \notin FnsOf(field.sub_fields[1].validators)
       /\ "list_length_validator" \notin FnsOf(field.sub_fields[1].pre_validators)
       /\ "list_length_validator" \notin FnsOf(field.sub_fields[1].post_validators)
       /\ "list_length_validator" \notin FnsOf(Funcs(field.sub_fields[1].class_validators))
  /\ (Constructed /\ AlwaysRun # {}) => field.validate_always

(***************************************************************************)
(* C19: when a mapping-shaped field validates a mapping, the returned      *)
(* mapping has one entry for each distinct validated key, holding the      *)
(* validated value of the last input entry with that validated key; it has *)
(* as many entries as the input exactly when no two keys validate to the   *)
(* same key.                                                               *)
(***************************************************************************)
\* _validate_mapping of the field returned a mapping
MappingSuccess ==
  /\ phase = "validated"
  /\ MappingCase
  /\ ShapeResult.raised = ""
  /\ ~Truthy(ShapeResult.errors)

\* the (key, value) pairs of the mapping returned
Out == ShapeResult.value.items

\* the last entry of the input whose key validates to the key of entry i
LastWithKey(i) ==
  CHOOSE l \in DOMAIN Entries :
    /\ KeyResults[l].value = KeyResults[i].value
    /\ \A m \in DOMAIN Entries : KeyResults[m].value = KeyResults[i].value => m <= l

C19_MappingEntries ==
  MappingSuccess =>
    /\ \A i \in DOMAIN Entries :
         \E j \in DOMAIN Out :
           Out[j] = PairV(KeyResults[i].value, ValueResults[LastWithKey(i)].value)
    /\ \A j \in DOMAIN Out : \E i \in DOMAIN Entries : Out[j].items[1] = KeyResults[i].value
    /\ \A j, k \in DOMAIN Out : Out[j].items[1] = Out[k].items[1] => j = k
    /\ Len(Out) = Cardinality({KeyResults[i].value : i \in DOMAIN Entries})
    /\ Len(Out) <= Len(Entries)

\* Dict[int, str] given {1: 1, '1': 'a'}: one entry, 1: 'a'
C19_Witness ==
  /\ MappingSuccess
  /\ config[1] = Generic("dict", <<IntT, StrT>>)
  /\ Len(Entries) = 2
  /\ Entries[1] = PairV(IntV(1), IntV(1))
  /\ Entries[2] = PairV(StrV(<<"1">>), StrV(<<"a">>))
  /\ Out = <<PairV(IntV(1), StrV(<<"a">>))>>

\* C19, as the claim has it: one entry of the output for each entry of the input,
\* none dropped or merged
C19_OneEntryEach ==
  MappingSuccess =>
    /\ Len(Out) = Len(Entries)
    /\ \A i \in DOMAIN Entries :
         \E j \in DOMAIN Out : Out[j] = PairV(KeyResults[i].value, ValueResults[i].value)

====
